---------------------------- MODULE Spec2Model ----------------------------
(***************************************************************************)
(* Model of the COVID-19 daily-report import script                        *)
(* (scripts/importLocalData.ts): the directory listing, the per-file       *)
(* parsing and aggregation, the batched detail inserts and the two final   *)
(* statistics inserts, run against a PostgreSQL database holding the       *)
(* tables DailyReport, DailyGlobalStats and CountryStats; and of the       *)
(* handler GET /api/covid/stats (app/api/covid/stats/route.ts) with the    *)
(* Dashboard that shows its answer.                                        *)
(*                                                                         *)
(* Spec is one run of the script on a database that accepts every call,    *)
(* SpecTwice two runs, SpecFaults one run on a database that may reject a  *)
(* call, SpecRow one record through the body of the row loop, SpecStats    *)
(* one fetch of the statistics by the Dashboard.                           *)
(*                                                                         *)
(* The regular expression of parseDate, parseInt, parseFloat and the        *)
(* default sort are computed character by character, as the JavaScript run *)
(* time (Node 20, V8) computes them, on the spelling of a string: the      *)
(* tuple of its characters.  An absent CSV column (undefined) and an empty *)
(* field are both "": the script only ever tests them with `!value` and    *)
(* `||`, which treat the two alike.                                        *)
(***************************************************************************)
EXTENDS Integers, Sequences, FiniteSets, TLC

(***************************************************************************)
(* Bounds of the model.                                                    *)
(***************************************************************************)
MaxRows == 3

(***************************************************************************)
(* Characters and strings.                                                 *)
(***************************************************************************)
DigitSeq == <<"0", "1", "2", "3", "4", "5", "6", "7", "8", "9">>

Digits == {DigitSeq[i] : i \in 1..Len(DigitSeq)}

DigitVal(c) == (CHOOSE i \in 1..Len(DigitSeq) : DigitSeq[i] = c) - 1

\* The characters in use, in ascending UTF-16 code unit order.
AsciiOrder ==
    <<" ", "-", ".", "/">> \o DigitSeq \o
    <<"a", "b", "c", "d", "e", "f", "g", "h", "i", "j", "k", "l", "m",
      "n", "o", "p", "q", "r", "s", "t", "u", "v", "w", "x", "y", "z">>

CharCode(c) == CHOOSE i \in 1..Len(AsciiOrder) : AsciiOrder[i] = c

(***************************************************************************)
(* The spelling of every string the inputs hold.                           *)
(***************************************************************************)
Spell(string) ==
    CASE string = "" -> <<>>
      [] string = "02-30-2020.csv" -> <<"0", "2", "-", "3", "0", "-", "2", "0", "2", "0", ".", "c", "s", "v">>
      [] string = "03-01-2020.csv" -> <<"0", "3", "-", "0", "1", "-", "2", "0", "2", "0", ".", "c", "s", "v">>
      [] string = "12-31-2019.csv" -> <<"1", "2", "-", "3", "1", "-", "2", "0", "1", "9", ".", "c", "s", "v">>
      [] string = "13-01-2020.csv" -> <<"1", "3", "-", "0", "1", "-", "2", "0", "2", "0", ".", "c", "s", "v">>
      [] string = "invalid.csv" -> <<"i", "n", "v", "a", "l", "i", "d", ".", "c", "s", "v">>
      [] string = "notes.txt" -> <<"n", "o", "t", "e", "s", ".", "t", "x", "t">>
      [] string = "1000" -> <<"1", "0", "0", "0">>
      [] string = "10" -> <<"1", "0">>
      [] string = "500" -> <<"5", "0", "0">>
      [] string = "5" -> <<"5">>
      [] string = "7" -> <<"7">>
      [] string = "2" -> <<"2">>
      [] string = "1" -> <<"1">>
      [] string = "3" -> <<"3">>
      [] string = "2.5" -> <<"2", ".", "5">>
      [] string = "0" -> <<"0">>
      [] string = "4" -> <<"4">>
      [] string = "9" -> <<"9">>
      [] string = "1.5" -> <<"1", ".", "5">>
      [] string = "x" -> <<"x">>
      [] string = "12" -> <<"1", "2">>
      [] string = "20" -> <<"2", "0">>
      [] string = "4x" -> <<"4", "x">>
      [] string = "-3" -> <<"-", "3">>
      [] string = "-2" -> <<"-", "2">>
      [] string = " 7" -> <<" ", "7">>
      [] string = "1.9" -> <<"1", ".", "9">>
      [] string = "0.0" -> <<"0", ".", "0">>
      [] string = "-1.5" -> <<"-", "1", ".", "5">>
      [] string = ".5" -> <<".", "5">>
      [] string = "0.25" -> <<"0", ".", "2", "5">>
      [] string = "-0" -> <<"-", "0">>
      [] string = "8" -> <<"8">>
      [] string = "331" -> <<"3", "3", "1">>
      [] string = "332" -> <<"3", "3", "2">>
      [] string = "2020" -> <<"2", "0", "2", "0">>
      [] string = "2021" -> <<"2", "0", "2", "1">>
      [] string = "2022" -> <<"2", "0", "2", "2">>
      [] string = "2023" -> <<"2", "0", "2", "3">>
      [] string = "Infinity" -> <<"I", "n", "f", "i", "n", "i", "t", "y">>
      [] string = "2020-03-02" -> <<"2", "0", "2", "0", "-", "0", "3", "-", "0", "2">>
      [] string = "2020-03-03" -> <<"2", "0", "2", "0", "-", "0", "3", "-", "0", "3">>

\* a < b in the order Array.prototype.sort() uses without a comparator.
RECURSIVE LexLess(_, _)
LexLess(a, b) ==
    IF b = <<>> THEN FALSE
    ELSE IF a = <<>> THEN TRUE
    ELSE IF a[1] # b[1] THEN CharCode(a[1]) < CharCode(b[1])
    ELSE LexLess(Tail(a), Tail(b))

\* The names of S as files.sort() leaves them.
RECURSIVE SortNames(_)
SortNames(S) ==
    IF S = {} THEN <<>>
    ELSE LET m == CHOOSE x \in S : \A y \in S \ {x} : LexLess(Spell(x), Spell(y))
         IN  <<m>> \o SortNames(S \ {m})

IsSuffix(suffix, s) ==
    /\ Len(s) >= Len(suffix)
    /\ SubSeq(s, Len(s) - Len(suffix) + 1, Len(s)) = suffix

endsWith(string, suffix) == IsSuffix(suffix, Spell(string))

DotCsv == <<".", "c", "s", "v">>

RECURSIVE Pow10(_)
Pow10(k) == IF k = 0 THEN 1 ELSE 10 * Pow10(k - 1)

\* The number a tuple of digits denotes.
RECURSIVE DigitsValue(_)
DigitsValue(ds) ==
    IF ds = <<>> THEN 0
    ELSE 10 * DigitsValue(SubSeq(ds, 1, Len(ds) - 1)) + DigitVal(ds[Len(ds)])

\* The length of the longest prefix of s made of digits only.
RECURSIVE DigitPrefixLen(_)
DigitPrefixLen(s) ==
    IF s # <<>> /\ s[1] \in Digits THEN 1 + DigitPrefixLen(Tail(s)) ELSE 0

RECURSIVE TrimLeft(_)
TrimLeft(s) == IF s # <<>> /\ s[1] = " " THEN TrimLeft(Tail(s)) ELSE s

(***************************************************************************)
(* Absent values.  A nullable string is Null, which no input holds, or a   *)
(* string; a nullable number is <<>> (null, or NaN out of a parser) or     *)
(* <<v>>.                                                                  *)
(***************************************************************************)
Null == "<null>"

NaN == <<>>

(***************************************************************************)
(* JavaScript's parseInt(value) without a radix, on the characters in use: *)
(* leading white space, an optional sign, then the longest run of decimal  *)
(* digits; NaN when there is no digit.                                     *)
(***************************************************************************)
IntegerPrefix(t) ==
    LET neg  == t # <<>> /\ t[1] = "-"
        body == IF neg THEN Tail(t) ELSE t
        k    == DigitPrefixLen(body)
    IN  IF k = 0 THEN NaN
        ELSE <<(IF neg THEN -1 ELSE 1) * DigitsValue(SubSeq(body, 1, k))>>

parseInt(value) == IntegerPrefix(TrimLeft(Spell(value)))

(***************************************************************************)
(* A decimal number n / 10^d, the value of a parsed float.                 *)
(***************************************************************************)
Dec(n, d) == [n |-> n, d |-> d]

Zero == Dec(0, 0)

DecPositive(x) == x.n > 0

DecAdd(x, y) ==
    IF x.d >= y.d THEN Dec(x.n + y.n * Pow10(x.d - y.d), x.d)
    ELSE Dec(x.n * Pow10(y.d - x.d) + y.n, y.d)

DecEq(x, y) == x.n * Pow10(y.d) = y.n * Pow10(x.d)

(***************************************************************************)
(* JavaScript's parseFloat(value) on the characters in use: leading white  *)
(* space, an optional sign, digits, an optional fraction; NaN when no      *)
(* digit stands at the start.                                              *)
(***************************************************************************)
DecimalPrefix(t) ==
    LET neg  == t # <<>> /\ t[1] = "-"
        body == IF neg THEN Tail(t) ELSE t
        k    == DigitPrefixLen(body)
        rest == SubSeq(body, k + 1, Len(body))
        f    == IF rest # <<>> /\ rest[1] = "."
                THEN DigitPrefixLen(Tail(rest)) ELSE 0
        int  == DigitsValue(SubSeq(body, 1, k))
        frac == DigitsValue(SubSeq(rest, 2, f + 1))
        sgn  == IF neg THEN -1 ELSE 1
    IN  IF k = 0 /\ f = 0 THEN NaN
        ELSE <<Dec(sgn * (int * Pow10(f) + frac), f)>>

parseFloat(value) == DecimalPrefix(TrimLeft(Spell(value)))

\* src: parseValue(value, defaultValue = null)
parseValue(value, defaultValue) ==
    IF value = "" THEN defaultValue ELSE value

\* src: parseNumber(value, defaultValue = 0)
parseNumber(value, defaultValue) ==
    IF value = "" THEN defaultValue
    ELSE LET parsed == parseFloat(value)
         IN  IF parsed = NaN THEN defaultValue ELSE parsed[1]

\* src: parseInteger(value, defaultValue = 0)
parseInteger(value, defaultValue) ==
    IF value = "" THEN defaultValue
    ELSE LET parsed == parseInt(value)
         IN  IF parsed = NaN THEN defaultValue ELSE parsed[1]

\* a || b on two strings: the first when it is not empty.
OrElse(a, b) == IF a # "" THEN a ELSE b


(***************************************************************************)
(* Dates.  A Date is Invalid or a calendar day [y, m, d] (every Date of    *)
(* the script is a UTC midnight).                                          *)
(***************************************************************************)
Invalid == [y |-> -1, m |-> 0, d |-> 0]

IsLeap(y) == (y % 4 = 0 /\ y % 100 # 0) \/ y % 400 = 0

DaysInMonth(y, m) ==
    IF m = 2 THEN (IF IsLeap(y) THEN 29 ELSE 28)
    ELSE IF m \in {4, 6, 9, 11} THEN 30 ELSE 31

AllDigits(s) == \A k \in 1..Len(s) : s[k] \in Digits

\* s is dddd-dd-dd
IsIsoShape(s) ==
    /\ Len(s) = 10
    /\ AllDigits(SubSeq(s, 1, 4)) /\ s[5] = "-"
    /\ AllDigits(SubSeq(s, 6, 7)) /\ s[8] = "-"
    /\ AllDigits(SubSeq(s, 9, 10))

(***************************************************************************)
(* new Date(s) for a date-only string, as V8 parses it: the month must be  *)
(* 1..12 and the day 1..31, else the Date is invalid; a day past the end   *)
(* of its month is carried into the next month (2020-02-30 is 2020-03-01). *)
(***************************************************************************)
newDate(s) ==
    IF ~IsIsoShape(s) THEN Invalid
    ELSE LET y == DigitsValue(SubSeq(s, 1, 4))
             m == DigitsValue(SubSeq(s, 6, 7))
             d == DigitsValue(SubSeq(s, 9, 10))
         IN  IF m \notin 1..12 \/ d \notin 1..31 THEN Invalid
             ELSE IF d <= DaysInMonth(y, m) THEN [y |-> y, m |-> m, d |-> d]
             ELSE [y |-> y, m |-> m + 1, d |-> d - DaysInMonth(y, m)]

\* n written with `width` digits.
RECURSIVE Pad(_, _)
Pad(n, width) ==
    IF width = 0 THEN <<>>
    ELSE Pad(n \div 10, width - 1) \o <<DigitSeq[(n % 10) + 1]>>

\* date.toISOString().split('T')[0], for a valid date.
toISODate(date) ==
    Pad(date.y, 4) \o <<"-">> \o Pad(date.m, 2) \o <<"-">> \o Pad(date.d, 2)

\* Date a is earlier than date b.
Earlier(a, b) ==
    \/ a.y < b.y
    \/ a.y = b.y /\ a.m < b.m
    \/ a.y = b.y /\ a.m = b.m /\ a.d < b.d

\* The pattern /(\d{2})-(\d{2})-(\d{4})\.csv/ matches s at position p.
MatchAt(s, p) ==
    /\ p + 13 <= Len(s)
    /\ AllDigits(SubSeq(s, p, p + 1)) /\ s[p + 2] = "-"
    /\ AllDigits(SubSeq(s, p + 3, p + 4)) /\ s[p + 5] = "-"
    /\ AllDigits(SubSeq(s, p + 6, p + 9))
    /\ SubSeq(s, p + 10, p + 13) = DotCsv

\* The position of the leftmost match at or after p, which is the match
\* String.prototype.match returns; 0 when there is none.
RECURSIVE FirstMatch(_, _)
FirstMatch(s, p) ==
    IF p + 13 > Len(s) THEN 0
    ELSE IF MatchAt(s, p) THEN p
    ELSE FirstMatch(s, p + 1)

(***************************************************************************)
(* parseDate(filename): [threw |-> TRUE] when the pattern does not match,  *)
(* else the Date of `${year}-${month}-${day}`, which may be invalid.       *)
(***************************************************************************)
DateOfMatch(s, p) ==
    IF p = 0 THEN [threw |-> TRUE, date |-> Invalid]
    ELSE [threw |-> FALSE,
          date  |-> newDate(SubSeq(s, p + 6, p + 9) \o <<"-">> \o SubSeq(s, p, p + 1)
                            \o <<"-">> \o SubSeq(s, p + 3, p + 4))]

MatchOf(s) == DateOfMatch(s, FirstMatch(s, 1))

parseDate(filename) == MatchOf(Spell(filename))

(***************************************************************************)
(* Insertion-ordered maps (JavaScript's Map): sequences of [key, val].     *)
(***************************************************************************)
MapHas(map, key) == \E n \in 1..Len(map) : map[n].key = key

MapGet(map, key) == map[CHOOSE n \in 1..Len(map) : map[n].key = key].val

\* A variant that adds an entry whether or not the key is there.
MapSetAppend(map, key, val) == Append(map, [key |-> key, val |-> val])

\* map.set(key, val): an existing key keeps its place.
MapSet(map, key, val) ==
    IF MapHas(map, key)
    THEN [n \in 1..Len(map) |->
            IF map[n].key = key THEN [key |-> key, val |-> val] ELSE map[n]]
    ELSE Append(map, [key |-> key, val |-> val])

MapKeys(map) == {map[n].key : n \in 1..Len(map)}

(***************************************************************************)
(* One parsed CSV record (interface DailyReportRow).  The columns FIPS,    *)
(* Last_Update, Lat, Long_ and Combined_Key are left out: they are copied  *)
(* to the detail row and read by nothing else.                             *)
(***************************************************************************)
RawRow(country, countrySlash, province, admin2, confirmed, deaths, recovered, active, incident, incidence, fatalityDash, fatalityUnderscore) ==
    [Country_Region      |-> country,
     CountrySlash        |-> countrySlash,
     Province_State      |-> province,
     Admin2              |-> admin2,
     Confirmed           |-> confirmed,
     Deaths              |-> deaths,
     Recovered           |-> recovered,
     Active              |-> active,
     Incident_Rate       |-> incident,
     Incidence_Rate      |-> incidence,
     CaseFatalityDash    |-> fatalityDash,
     Case_Fatality_Ratio |-> fatalityUnderscore]

\* What the loop over one file's rows carries.
EmptyAcc(countryStatsMap) ==
    [dailyConfirmed  |-> 0,
     dailyDeaths     |-> 0,
     dailyRecovered  |-> 0,
     dailyActive     |-> 0,
     countryStatsMap |-> countryStatsMap,
     dataToInsert    |-> <<>>]

NewCountryStats ==
    [confirmed |-> 0, deaths |-> 0, recovered |-> 0, active |-> 0,
     incidentRates |-> <<>>, fatalityRatios |-> <<>>]

\* A variant that never stores a negative number of active cases.
ActiveOfClamped(row, confirmed, deaths, recovered) ==
    LET active == parseInteger(row.Active, confirmed - deaths - recovered)
    IN  IF active < 0 THEN 0 ELSE active

\* active = parseInteger(row.Active, confirmed - deaths - recovered)
ActiveOf(row, confirmed, deaths, recovered) ==
    parseInteger(row.Active, confirmed - deaths - recovered)

\* A variant that stores the rate as parsed.
RateAsParsed(rate) == <<rate>>

\* incidentRate > 0 ? incidentRate : null
PositiveOrNull(rate) == IF DecPositive(rate) THEN <<rate>> ELSE <<>>

\* A variant that takes every rate as a sample.
PushAlways(list, rate) == Append(list, rate)

\* if (rate > 0) list.push(rate)
PushIfPositive(list, rate) == IF DecPositive(rate) THEN Append(list, rate) ELSE list

\* A variant that keeps the counts of the last row instead of the sums.
AddCountsLastRow(countryStats, confirmed, deaths, recovered, active) ==
    [countryStats EXCEPT !.confirmed = confirmed, !.deaths = deaths,
                         !.recovered = recovered, !.active = active]

\* countryStats.confirmed += confirmed, and so on for the three other counts
AddCounts(countryStats, confirmed, deaths, recovered, active) ==
    [countryStats EXCEPT !.confirmed = @ + confirmed, !.deaths = @ + deaths,
                         !.recovered = @ + recovered, !.active = @ + active]

\* A variant that takes a record without a country like any other.
SkippedNever(countryRegion) == FALSE

\* if (!countryRegion) continue
Skipped(countryRegion) == countryRegion = Null

(***************************************************************************)
(* The body of `for (const row of rows)`: one record added to the daily    *)
(* sums, to its country's statistics and to dataToInsert, or skipped.      *)
(***************************************************************************)
LoopBody(acc, row, reportDate) ==
    LET countryRegion == parseValue(OrElse(row.Country_Region, row.CountrySlash), Null)
        confirmed     == parseInteger(row.Confirmed, 0)
        deaths        == parseInteger(row.Deaths, 0)
        recovered     == parseInteger(row.Recovered, 0)
        active        == ActiveOf(row, confirmed, deaths, recovered)
        map0          == IF MapHas(acc.countryStatsMap, countryRegion)
                         THEN acc.countryStatsMap
                         ELSE MapSet(acc.countryStatsMap, countryRegion, NewCountryStats)
        old           == MapGet(map0, countryRegion)
        incidentRate  == parseNumber(OrElse(row.Incident_Rate, row.Incidence_Rate), Zero)
        fatalityRatio == parseNumber(OrElse(row.CaseFatalityDash, row.Case_Fatality_Ratio), Zero)
        countryStats  ==
            [AddCounts(old, confirmed, deaths, recovered, active) EXCEPT
                !.incidentRates  = PushIfPositive(@, incidentRate),
                !.fatalityRatios = PushIfPositive(@, fatalityRatio)]
        detail        ==
            [admin2            |-> parseValue(row.Admin2, Null),
             provinceState     |-> parseValue(row.Province_State, Null),
             countryRegion     |-> countryRegion,
             confirmed         |-> confirmed,
             deaths            |-> deaths,
             recovered         |-> recovered,
             active            |-> active,
             incidentRate      |-> PositiveOrNull(incidentRate),
             caseFatalityRatio |-> PositiveOrNull(fatalityRatio),
             reportDate        |-> reportDate]
    IN  IF Skipped(countryRegion) THEN acc
        ELSE [dailyConfirmed  |-> acc.dailyConfirmed + confirmed,
              dailyDeaths     |-> acc.dailyDeaths + deaths,
              dailyRecovered  |-> acc.dailyRecovered + recovered,
              dailyActive     |-> acc.dailyActive + active,
              countryStatsMap |-> MapSet(map0, countryRegion, countryStats),
              dataToInsert    |-> Append(acc.dataToInsert, detail)]

RECURSIVE LoopRows(_, _, _)
LoopRows(acc, rows, reportDate) ==
    IF rows = <<>> THEN acc
    ELSE LoopRows(LoopBody(acc, Head(rows), reportDate), Tail(rows), reportDate)


(***************************************************************************)
(* The database.  A table is the sequence of its rows in insertion order,  *)
(* each [id, data]; ids come from the table's SERIAL sequence.             *)
(***************************************************************************)
\* The unique index DailyReport(countryRegion, provinceState, admin2,
\* reportDate) of PostgreSQL: a NULL in a key column equals nothing.
Conflicts(a, b) ==
    /\ a.countryRegion = b.countryRegion
    /\ a.provinceState # Null /\ a.provinceState = b.provinceState
    /\ a.admin2 # Null /\ a.admin2 = b.admin2
    /\ a.reportDate = b.reportDate

\* INSERT ... ON CONFLICT DO NOTHING, row by row; the sequence advances for
\* a skipped row too.
RECURSIVE InsertSkipDuplicates(_, _, _)
InsertSkipDuplicates(table, batch, nextId) ==
    IF batch = <<>> THEN [table |-> table, nextId |-> nextId]
    ELSE LET row == Head(batch)
             dup == \E n \in 1..Len(table) : Conflicts(table[n].data, row)
         IN  InsertSkipDuplicates(
                 IF dup THEN table ELSE Append(table, [id |-> nextId, data |-> row]),
                 Tail(batch), nextId + 1)

\* prisma.dailyReport.createMany({ data: batch, skipDuplicates: true })
createMany(table, batch, nextId) == InsertSkipDuplicates(table, batch, nextId)

\* prisma.<table>.deleteMany({})
deleteMany(table) == <<>>

RECURSIVE SumOfField(_, _)
SumOfField(details, field) ==
    IF details = <<>> THEN 0
    ELSE Head(details)[field] + SumOfField(Tail(details), field)

\* A variant that sums over the rows the insert of the file keeps.
StoreSumsOfInserted(map, dateKey, reportDate, acc) ==
    LET table == InsertSkipDuplicates(<<>>, acc.dataToInsert, 1).table
        kept  == [n \in 1..Len(table) |-> table[n].data]
    IN  MapSet(map, dateKey,
               [date           |-> reportDate,
                totalConfirmed |-> SumOfField(kept, "confirmed"),
                totalDeaths    |-> SumOfField(kept, "deaths"),
                totalRecovered |-> SumOfField(kept, "recovered"),
                totalActive    |-> SumOfField(kept, "active")])

\* globalStatsByDate.set(dateKey, {...}): the sums of this file alone.
StoreGlobalStats(map, dateKey, reportDate, acc) ==
    MapSet(map, dateKey,
           [date           |-> reportDate,
            totalConfirmed |-> acc.dailyConfirmed,
            totalDeaths    |-> acc.dailyDeaths,
            totalRecovered |-> acc.dailyRecovered,
            totalActive    |-> acc.dailyActive])

RECURSIVE DecSum(_)
DecSum(list) == IF list = <<>> THEN Zero ELSE DecAdd(Head(list), DecSum(Tail(list)))

\* list.length > 0 ? list.reduce((a, b) => a + b, 0) / list.length : null
\* The quotient is kept as the pair (sum, length).
MeanOrNull(list) ==
    IF Len(list) > 0 THEN <<[sum |-> DecSum(list), len |-> Len(list)]>> ELSE <<>>

\* The data of prisma.dailyGlobalStats.create for one entry of globalStatsByDate.
GlobalStatsData(stats) ==
    [date           |-> stats.date,
     totalConfirmed |-> stats.totalConfirmed,
     totalDeaths    |-> stats.totalDeaths,
     totalRecovered |-> stats.totalRecovered,
     totalActive    |-> stats.totalActive]

\* The data of prisma.countryStats.create for one (dateKey, country) entry.
CountryStatsData(dateKey, country, stats) ==
    [countryRegion     |-> country,
     date              |-> newDate(dateKey),
     totalConfirmed    |-> stats.confirmed,
     totalDeaths       |-> stats.deaths,
     totalRecovered    |-> stats.recovered,
     totalActive       |-> stats.active,
     incidentRate      |-> MeanOrNull(stats.incidentRates),
     caseFatalityRatio |-> MeanOrNull(stats.fatalityRatios)]

\* The entries of countryStatsByDate in the order of the two nested loops.
RECURSIVE CountryEntries(_)
CountryEntries(byDate) ==
    IF byDate = <<>> THEN <<>>
    ELSE LET e == Head(byDate)
         IN  [n \in 1..Len(e.val) |->
                 [dateKey |-> e.key, country |-> e.val[n].key, stats |-> e.val[n].val]]
             \o CountryEntries(Tail(byDate))


(***************************************************************************)
(* The inputs: directory entries and CSV records.                          *)
(***************************************************************************)
File_02_30_2020 == "02-30-2020.csv"

File_03_01_2020 == "03-01-2020.csv"

File_12_31_2019 == "12-31-2019.csv"

File_13_01_2020 == "13-01-2020.csv"

File_invalid == "invalid.csv"

File_notes == "notes.txt"

\* Names a directory may hold or not.  The two resolve to the same report
\* date.
DatedNames == {File_02_30_2020, File_03_01_2020}

\* Names with a fixed content, which every directory with entries holds: a
\* report of another date (sorted last, though the earliest), and three
\* names the script never opens.
OtherNames == {File_12_31_2019, File_13_01_2020, File_invalid, File_notes}

US == "US"

France == "France"

\* US,,,,1000,10,, and US,,,,500,5,, and two rows of one sub-region of
\* France, with the same key (France, P, A), the second under the older
\* header Country/Region.
RowUS1 == RawRow(US, "", "", "", "1000", "10", "", "", "", "", "", "")

RowUS2 == RawRow(US, "", "", "", "500", "5", "", "", "", "", "", "")

RowFR1 == RawRow(France, "", "P", "A", "7", "2", "1", "3", "2.5", "", "0", "")

RowFR2 == RawRow("", France, "P", "A", "4", "9", "", "", "", "1.5", "", "x")

\* A record with no country under either header, with counts and a rate.
RowBlank == RawRow("", "", "P", "A", "8", "1", "", "", "2.5", "", "", "")

RowPool == {RowUS1, RowUS2, RowFR1, RowFR2}

SeqsUpTo(S, n) == UNION {[1..k -> S] : k \in 0..n}

\* A directory entry: whether fs.readFileSync succeeds, and the parsed records.
Unreadable == [readable |-> FALSE, rows |-> <<>>]

Contents ==
    {Unreadable} \cup {[readable |-> TRUE, rows |-> r] : r \in SeqsUpTo(RowPool, MaxRows)}

OtherContent == [readable |-> TRUE, rows |-> <<RowBlank, RowUS1>>]

\* What 02-30-2020.csv may hold; 03-01-2020.csv may hold any of Contents.
EarlyContents == {Unreadable, OtherContent}

\* The directory covid_19_daily_reports: absent, empty, or its entries by name.
MissingDir == [exists |-> FALSE, entries |-> <<>>]

EmptyDir == [exists |-> TRUE, entries |-> <<>>]

DirOf(N, early, late) ==
    [exists  |-> TRUE,
     entries |-> [n \in N \cup OtherNames |->
                     IF n = File_02_30_2020 THEN early
                     ELSE IF n = File_03_01_2020 THEN late
                     ELSE OtherContent]]

(***************************************************************************)
(* Rows the tables may hold before a run: left by an earlier import.       *)
(***************************************************************************)
StaleDate == [y |-> 2020, m |-> 3, d |-> 1]

StaleDetail ==
    [admin2 |-> "A", provinceState |-> "P", countryRegion |-> France,
     confirmed |-> 1, deaths |-> 1, recovered |-> 0, active |-> 0,
     incidentRate |-> <<>>, caseFatalityRatio |-> <<>>, reportDate |-> StaleDate]

StaleGlobal ==
    [date |-> StaleDate, totalConfirmed |-> 1, totalDeaths |-> 1,
     totalRecovered |-> 0, totalActive |-> 0]

StaleCountry ==
    [countryRegion |-> France, date |-> StaleDate, totalConfirmed |-> 1,
     totalDeaths |-> 1, totalRecovered |-> 0, totalActive |-> 0,
     incidentRate |-> <<>>, caseFatalityRatio |-> <<>>]

Priors ==
    {[DailyReport |-> <<>>, DailyGlobalStats |-> <<>>, CountryStats |-> <<>>,
      serial |-> [DailyReport |-> 1, DailyGlobalStats |-> 1, CountryStats |-> 1]],
     [DailyReport      |-> <<[id |-> 1, data |-> StaleDetail]>>,
      DailyGlobalStats |-> <<[id |-> 1, data |-> StaleGlobal]>>,
      CountryStats     |-> <<[id |-> 1, data |-> StaleCountry]>>,
      serial |-> [DailyReport |-> 2, DailyGlobalStats |-> 2, CountryStats |-> 2]]}

(***************************************************************************)
(* State.                                                                  *)
(***************************************************************************)
VARIABLES
    dir,                 \* the directory CSV_DIR
    DailyReport,         \* the three tables
    DailyGlobalStats,
    CountryStats,
    serial,              \* the next id of each table
    pc,                  \* where the script stands
    files,               \* the sorted .csv names
    i,                   \* index of the file in process (1-based)
    j,                   \* offset of the next batch in dataToInsert
    k,                   \* index of the next statistics row to insert
    dataToInsert,
    totalRecords,
    globalStatsByDate,
    countryStatsByDate,
    thrown,              \* importDailyReports rejected
    summary,             \* <<>>, or <<the final summary printed>>
    connected,           \* the Prisma client is connected
    exitCode,            \* -1 while the process runs
    run,                 \* which run of the script this is
    inFlight,            \* the createMany calls issued and not yet settled
    dbLog,               \* the database calls of this run, in order
    issued,              \* the batches of this run, in the order of their issue
    failure,             \* <<>>, or <<the call that rejected, the tables then>>
    atStart,             \* the tables as this run found them
    finished,            \* the tables each finished run left, and its exit code
    probe,               \* one record put through the loop body on its own
    response,            \* <<>>, or <<what GET /api/covid/stats answered>>
    page,                \* the Dashboard: its state and the viewer's time zone
    handler,             \* a route handler at work: where it is, what it read
    population,          \* the population import: its file, its table, where it is
    analytics            \* the analytics page: its selection, its loads, its state

vars ==
    <<dir, DailyReport, DailyGlobalStats, CountryStats, serial, pc, files, i, j, k,
      dataToInsert, totalRecords, globalStatsByDate, countryStatsByDate, thrown,
      summary, connected, exitCode, run, inFlight, dbLog, issued, failure, atStart,
      finished, probe, response, page, handler, population, analytics>>

Tables ==
    [DailyReport |-> DailyReport, DailyGlobalStats |-> DailyGlobalStats,
     CountryStats |-> CountryStats]

\* A table without its ids.
Data(table) == [n \in 1..Len(table) |-> table[n].data]

Ids(table) == {table[n].id : n \in 1..Len(table)}

NoProbe == [row |-> <<>>, acc |-> <<>>, out |-> <<>>]

\* useState(null), useState(true): the Dashboard before its fetch has
\* settled, in a browser of time zone `zone`.
Mounted(zone) == [stats |-> <<>>, loading |-> TRUE, zone |-> zone]

\* No request is being served.
Idle == [at |-> "idle"]

\* The population import is not run; table is CountryPopulation.
NotRun == [at |-> "off", table |-> <<>>]

\* The analytics page is not open.
Closed == [at |-> "closed"]

\* The state of a process that has just been started.
ProcessStart ==
    /\ pc = "start"
    /\ files = <<>>
    /\ i = 1
    /\ j = 0
    /\ k = 1
    /\ dataToInsert = <<>>
    /\ totalRecords = 0
    /\ globalStatsByDate = <<>>
    /\ countryStatsByDate = <<>>
    /\ thrown = FALSE
    /\ summary = <<>>
    /\ connected = TRUE
    /\ exitCode = -1
    /\ inFlight = <<>>
    /\ dbLog = <<>>
    /\ issued = <<>>
    /\ failure = <<>>

Init ==
    /\ \/ dir = MissingDir
       \/ dir = EmptyDir
       \/ \E N \in SUBSET DatedNames : \E early \in EarlyContents : \E late \in Contents :
             dir = DirOf(N, early, late)
    /\ \E prior \in Priors :
        /\ DailyReport = prior.DailyReport
        /\ DailyGlobalStats = prior.DailyGlobalStats
        /\ CountryStats = prior.CountryStats
        /\ serial = prior.serial
        /\ atStart = [DailyReport |-> prior.DailyReport,
                      DailyGlobalStats |-> prior.DailyGlobalStats,
                      CountryStats |-> prior.CountryStats]
    /\ ProcessStart
    /\ run = 1
    /\ finished = <<>>
    /\ probe = NoProbe
    /\ response = <<>>
    /\ page = Mounted("UTC")
    /\ handler = Idle
    /\ population = NotRun
    /\ analytics = Closed

database == <<DailyReport, DailyGlobalStats, CountryStats, serial>>

aggregates == <<dataToInsert, totalRecords, globalStatsByDate, countryStatsByDate>>

calls == <<inFlight, issued, failure>>

ghosts == <<run, atStart, finished, probe>>

web == <<response, page, handler, population, analytics>>

(***************************************************************************)
(* importDailyReports, steps 1 and 2: the folder must exist; its .csv      *)
(* names are listed and sorted.                                            *)
(***************************************************************************)
ListCsvFiles(entries) == SortNames({n \in DOMAIN entries : endsWith(n, DotCsv)})

\* A variant that wipes the tables before it looks for the folder.
ListFilesAfterWipe ==
    /\ pc = "start"
    /\ DailyReport' = <<>>
    /\ DailyGlobalStats' = <<>>
    /\ CountryStats' = <<>>
    /\ IF ~dir.exists
       THEN /\ thrown' = TRUE
            /\ pc' = "finally"
            /\ files' = files
       ELSE /\ files' = ListCsvFiles(dir.entries)
            /\ pc' = "wipe"
            /\ thrown' = thrown
    /\ UNCHANGED <<dir, serial, i, j, k, aggregates, summary, connected, exitCode,
                   dbLog, calls, web, ghosts>>

ListFiles ==
    /\ pc = "start"
    /\ IF ~dir.exists
       THEN /\ thrown' = TRUE
            /\ pc' = "finally"
            /\ files' = files
       ELSE /\ files' = ListCsvFiles(dir.entries)
            /\ pc' = "wipe"
            /\ thrown' = thrown
    /\ UNCHANGED <<dir, database, i, j, k, aggregates, summary, connected, exitCode,
                   dbLog, calls, web, ghosts>>

(***************************************************************************)
(* Step 3: the three deleteMany calls, one after the other.                *)
(***************************************************************************)
WipeOrder == <<"dailyReport.deleteMany", "dailyGlobalStats.deleteMany",
               "countryStats.deleteMany">>

\* An awaited call rejects outside the try of the file loop: what the run
\* remembers of it.
Rejected(call) == <<[call |-> call, at |-> Len(dbLog) + 1, tables |-> Tables]>>

\* A variant that leaves DailyReport as it is.
DeleteDailyReportSkipped ==
    /\ pc = "wipe" /\ k = 1
    /\ dbLog' = Append(dbLog, WipeOrder[1])
    /\ k' = 2
    /\ UNCHANGED <<dir, database, pc, files, i, j, aggregates, thrown, summary,
                   connected, exitCode, calls, web, ghosts>>

DeleteDailyReport ==
    /\ pc = "wipe" /\ k = 1
    /\ DailyReport' = deleteMany(DailyReport)
    /\ dbLog' = Append(dbLog, WipeOrder[1])
    /\ k' = 2
    /\ UNCHANGED <<dir, DailyGlobalStats, CountryStats, serial, pc, files, i, j,
                   aggregates, thrown, summary, connected, exitCode, calls, web, ghosts>>

DeleteDailyGlobalStats ==
    /\ pc = "wipe" /\ k = 2
    /\ DailyGlobalStats' = deleteMany(DailyGlobalStats)
    /\ dbLog' = Append(dbLog, WipeOrder[2])
    /\ k' = 3
    /\ UNCHANGED <<dir, DailyReport, CountryStats, serial, pc, files, i, j,
                   aggregates, thrown, summary, connected, exitCode, calls, web, ghosts>>

\* A variant that leaves CountryStats as it is.
DeleteCountryStatsForgotten ==
    /\ pc = "wipe" /\ k = 3
    /\ k' = 1
    /\ pc' = "files"
    /\ UNCHANGED <<dir, database, files, i, j, aggregates, thrown, summary,
                   connected, exitCode, dbLog, calls, web, ghosts>>

DeleteCountryStats ==
    /\ pc = "wipe" /\ k = 3
    /\ CountryStats' = deleteMany(CountryStats)
    /\ dbLog' = Append(dbLog, WipeOrder[3])
    /\ k' = 1
    /\ pc' = "files"
    /\ UNCHANGED <<dir, DailyReport, DailyGlobalStats, serial, files, i, j,
                   aggregates, thrown, summary, connected, exitCode, calls, web, ghosts>>


(***************************************************************************)
(* Step 4: one file.  parseDate throws on a name without the pattern,      *)
(* toISOString throws on an invalid Date and readCSVFile throws on a file  *)
(* it cannot read; the catch of the loop body logs the error and the loop  *)
(* goes on to the next file.                                               *)
(***************************************************************************)
\* A variant that only minds the pattern of the name.
FileThrowsOnNameOnly(parsed, entry) == parsed.threw

FileThrows(parsed, entry) ==
    \/ parsed.threw
    \/ parsed.date = Invalid
    \/ ~entry.readable

\* batchSize is 500 in the script; the model's files are short.
batchSize == 1

ProcessFile ==
    /\ pc = "files" /\ i <= Len(files)
    /\ LET file   == files[i]
           parsed == parseDate(file)
       IN  IF FileThrows(parsed, dir.entries[file])
           THEN /\ i' = i + 1
                /\ UNCHANGED <<pc, j, aggregates>>
           ELSE LET reportDate == parsed.date
                    dateKey    == toISODate(reportDate)
                    rows       == dir.entries[file].rows
                    byDate     == IF MapHas(countryStatsByDate, dateKey)
                                  THEN countryStatsByDate
                                  ELSE MapSet(countryStatsByDate, dateKey, <<>>)
                    acc        == LoopRows(EmptyAcc(MapGet(byDate, dateKey)), rows,
                                           reportDate)
                IN  /\ countryStatsByDate' = MapSet(byDate, dateKey, acc.countryStatsMap)
                    /\ globalStatsByDate' =
                           StoreGlobalStats(globalStatsByDate, dateKey, reportDate, acc)
                    /\ dataToInsert' = acc.dataToInsert
                    /\ j' = 0
                    /\ pc' = "batches"
                    /\ UNCHANGED <<i, totalRecords>>
    /\ UNCHANGED <<dir, database, files, k, thrown, summary, connected, exitCode,
                   dbLog, calls, web, ghosts>>

Min(a, b) == IF a <= b THEN a ELSE b

\* dataToInsert.slice(j, j + batchSize)
Batch(data, from) == SubSeq(data, from + 1, Min(from + batchSize, Len(data)))

\* What the log of batches keeps of a call.
Issue(file, from, rows, total) ==
    [file |-> file, from |-> from, rows |-> rows, total |-> total, settled |-> FALSE,
     rejected |-> FALSE]

\* A variant that issues the next batch while the last one is in flight.
InsertBatchNoAwait ==
    /\ pc = "batches"
    /\ LET from == j + batchSize * Len(inFlight)
       IN  /\ from < Len(dataToInsert)
           /\ inFlight' = Append(inFlight, Batch(dataToInsert, from))
           /\ issued' = Append(issued, Issue(i, from, Batch(dataToInsert, from),
                                            Len(dataToInsert)))
    /\ dbLog' = Append(dbLog, "dailyReport.createMany")
    /\ UNCHANGED <<dir, database, pc, files, i, j, k, aggregates, thrown, summary,
                   connected, exitCode, failure, web, ghosts>>

\* prisma.dailyReport.createMany({ data: batch, skipDuplicates: true }) is
\* called; the loop waits for it to settle.
InsertBatch ==
    /\ pc = "batches" /\ j < Len(dataToInsert)
    /\ inFlight = <<>>
    /\ inFlight' = Append(inFlight, Batch(dataToInsert, j))
    /\ issued' = Append(issued, Issue(i, j, Batch(dataToInsert, j), Len(dataToInsert)))
    /\ dbLog' = Append(dbLog, "dailyReport.createMany")
    /\ UNCHANGED <<dir, database, pc, files, i, j, k, aggregates, thrown, summary,
                   connected, exitCode, failure, web, ghosts>>

\* The oldest call in flight has settled.
Settle(log) ==
    LET a == Len(log) - Len(inFlight) + 1
    IN  [log EXCEPT ![a].settled = TRUE]

\* The call resolves: its rows are in the table, the duplicates aside, and
\* the loop goes on with j += batchSize.
BatchInserted ==
    /\ pc = "batches" /\ inFlight # <<>>
    /\ LET res == createMany(DailyReport, Head(inFlight), serial.DailyReport)
       IN  /\ DailyReport' = res.table
           /\ serial' = [serial EXCEPT !.DailyReport = res.nextId]
    /\ inFlight' = Tail(inFlight)
    /\ issued' = Settle(issued)
    /\ j' = j + batchSize
    /\ UNCHANGED <<dir, DailyGlobalStats, CountryStats, pc, files, i, k, aggregates,
                   thrown, summary, connected, exitCode, dbLog, failure, web, ghosts>>

\* totalRecords += dataToInsert.length, and on to the next file
FileInserted ==
    /\ pc = "batches" /\ j >= Len(dataToInsert)
    /\ inFlight = <<>>
    /\ totalRecords' = totalRecords + Len(dataToInsert)
    /\ i' = i + 1
    /\ pc' = "files"
    /\ UNCHANGED <<dir, database, files, j, k, dataToInsert, globalStatsByDate,
                   countryStatsByDate, thrown, summary, connected, exitCode, dbLog,
                   calls, web, ghosts>>

EndOfFiles ==
    /\ pc = "files" /\ i > Len(files)
    /\ pc' = "global"
    /\ k' = 1
    /\ UNCHANGED <<dir, database, files, i, j, aggregates, thrown, summary, connected,
                   exitCode, dbLog, calls, web, ghosts>>

(***************************************************************************)
(* Step 5: one create per entry of globalStatsByDate.  A row of the same   *)
(* date in the table violates DailyGlobalStats_date_key and the create     *)
(* rejects.                                                                *)
(***************************************************************************)
InsertGlobalStats ==
    /\ pc = "global" /\ k <= Len(globalStatsByDate)
    /\ LET data == GlobalStatsData(globalStatsByDate[k].val)
       IN  IF \E n \in 1..Len(DailyGlobalStats) : DailyGlobalStats[n].data.date = data.date
           THEN /\ thrown' = TRUE
                /\ pc' = "finally"
                /\ failure' = Rejected("dailyGlobalStats.create")
                /\ UNCHANGED <<DailyGlobalStats, serial, k>>
           ELSE /\ DailyGlobalStats' =
                       Append(DailyGlobalStats,
                              [id |-> serial.DailyGlobalStats, data |-> data])
                /\ serial' = [serial EXCEPT !.DailyGlobalStats = @ + 1]
                /\ k' = k + 1
                /\ UNCHANGED <<thrown, pc, failure>>
    /\ dbLog' = Append(dbLog, "dailyGlobalStats.create")
    /\ UNCHANGED <<dir, DailyReport, CountryStats, files, i, j, aggregates, summary,
                   connected, exitCode, inFlight, issued, web, ghosts>>

EndOfGlobalStats ==
    /\ pc = "global" /\ k > Len(globalStatsByDate)
    /\ pc' = "country"
    /\ k' = 1
    /\ UNCHANGED <<dir, database, files, i, j, aggregates, thrown, summary, connected,
                   exitCode, dbLog, calls, web, ghosts>>

(***************************************************************************)
(* Step 6: one create per (date, country) entry of countryStatsByDate.     *)
(***************************************************************************)
InsertCountryStats ==
    /\ pc = "country" /\ k <= Len(CountryEntries(countryStatsByDate))
    /\ LET e    == CountryEntries(countryStatsByDate)[k]
           data == CountryStatsData(e.dateKey, e.country, e.stats)
       IN  IF \E n \in 1..Len(CountryStats) :
                 /\ CountryStats[n].data.countryRegion = data.countryRegion
                 /\ CountryStats[n].data.date = data.date
           THEN /\ thrown' = TRUE
                /\ pc' = "finally"
                /\ failure' = Rejected("countryStats.create")
                /\ UNCHANGED <<CountryStats, serial, k>>
           ELSE /\ CountryStats' =
                       Append(CountryStats, [id |-> serial.CountryStats, data |-> data])
                /\ serial' = [serial EXCEPT !.CountryStats = @ + 1]
                /\ k' = k + 1
                /\ UNCHANGED <<thrown, pc, failure>>
    /\ dbLog' = Append(dbLog, "countryStats.create")
    /\ UNCHANGED <<dir, DailyReport, DailyGlobalStats, files, i, j, aggregates,
                   summary, connected, exitCode, inFlight, issued, web, ghosts>>

(***************************************************************************)
(* Step 7: the final summary, read from the aggregates in memory.          *)
(***************************************************************************)
SummaryOf(records, globalStats, countryStats) ==
    [totalRecords |-> records,
     days         |-> Len(globalStats),
     countries    |-> Cardinality({CountryEntries(countryStats)[n].country :
                                     n \in 1..Len(CountryEntries(countryStats))}),
     latestStats  |-> IF globalStats = <<>> THEN <<>>
                      ELSE <<globalStats[Len(globalStats)].val>>]

PrintSummary ==
    /\ pc = "country" /\ k > Len(CountryEntries(countryStatsByDate))
    /\ summary' = <<SummaryOf(totalRecords, globalStatsByDate, countryStatsByDate)>>
    /\ pc' = "finally"
    /\ UNCHANGED <<dir, database, files, i, j, k, aggregates, thrown, connected,
                   exitCode, dbLog, calls, web, ghosts>>

\* A variant that disconnects at the end of the try block only.
DisconnectInTry ==
    /\ pc = "finally"
    /\ connected' = thrown
    /\ dbLog' = IF thrown THEN dbLog ELSE Append(dbLog, "$disconnect")
    /\ pc' = "exit"
    /\ UNCHANGED <<dir, database, files, i, j, k, aggregates, thrown, summary,
                   exitCode, calls, web, ghosts>>

\* finally { await prisma.$disconnect() }
Disconnect ==
    /\ pc = "finally"
    /\ connected' = FALSE
    /\ dbLog' = Append(dbLog, "$disconnect")
    /\ pc' = "exit"
    /\ UNCHANGED <<dir, database, files, i, j, k, aggregates, thrown, summary,
                   exitCode, calls, web, ghosts>>

\* .then(() => process.exit(0)).catch(() => process.exit(1))
ExitStatus(rejected) == IF rejected THEN 1 ELSE 0

Exit ==
    /\ pc = "exit"
    /\ exitCode' = ExitStatus(thrown)
    /\ pc' = "exited"
    /\ finished' = Append(finished, [atStart |-> atStart, tables |-> Tables,
                                     exitCode |-> ExitStatus(thrown)])
    /\ UNCHANGED <<dir, database, files, i, j, k, aggregates, thrown, summary,
                   connected, dbLog, calls, web, run, atStart,
                   probe>>

\* Between two runs, the tables are put back to rows of an earlier import.
Restore ==
    /\ pc = "exited" /\ run = 1
    /\ \E prior \in Priors :
        /\ Tables # [DailyReport |-> prior.DailyReport,
                     DailyGlobalStats |-> prior.DailyGlobalStats,
                     CountryStats |-> prior.CountryStats]
        /\ DailyReport' = prior.DailyReport
        /\ DailyGlobalStats' = prior.DailyGlobalStats
        /\ CountryStats' = prior.CountryStats
        /\ serial' = [t \in DOMAIN serial |->
                         IF serial[t] >= prior.serial[t] THEN serial[t]
                         ELSE prior.serial[t]]
    /\ UNCHANGED <<dir, pc, files, i, j, k, aggregates, thrown, summary, connected,
                   exitCode, dbLog, calls, web, ghosts>>

\* The script is run again on the same directory and database.
Rerun ==
    /\ pc = "exited" /\ run = 1
    /\ run' = run + 1
    /\ atStart' = Tables
    /\ pc' = "start"
    /\ files' = <<>>
    /\ i' = 1
    /\ j' = 0
    /\ k' = 1
    /\ dataToInsert' = <<>>
    /\ totalRecords' = 0
    /\ globalStatsByDate' = <<>>
    /\ countryStatsByDate' = <<>>
    /\ thrown' = FALSE
    /\ summary' = <<>>
    /\ connected' = TRUE
    /\ exitCode' = -1
    /\ inFlight' = <<>>
    /\ dbLog' = <<>>
    /\ issued' = <<>>
    /\ failure' = <<>>
    /\ UNCHANGED <<dir, database, finished, probe, web>>

Next ==
    \/ ListFiles
    \/ DeleteDailyReport
    \/ DeleteDailyGlobalStats
    \/ DeleteCountryStats
    \/ ProcessFile
    \/ InsertBatch
    \/ BatchInserted
    \/ FileInserted
    \/ EndOfFiles
    \/ InsertGlobalStats
    \/ EndOfGlobalStats
    \/ InsertCountryStats
    \/ PrintSummary
    \/ Disconnect
    \/ Exit

Spec == Init /\ [][Next]_vars

(***************************************************************************)
(* The database may reject a call: the connection is lost, the server      *)
(* answers with an error.  A rejected statement changes no row.            *)
(***************************************************************************)
\* A variant in which a rejected deleteMany is logged and the run goes on.
DeleteManyFailsIgnored ==
    /\ pc = "wipe"
    /\ dbLog' = Append(dbLog, WipeOrder[k])
    /\ failure' = Rejected(WipeOrder[k])
    /\ IF k < 3 THEN k' = k + 1 /\ pc' = pc ELSE k' = 1 /\ pc' = "files"
    /\ UNCHANGED <<dir, database, files, i, j, aggregates, thrown, summary, connected,
                   exitCode, inFlight, issued, web, ghosts>>

\* One of the three deleteMany calls rejects: the catch of
\* importDailyReports rethrows.
DeleteManyFails ==
    /\ pc = "wipe"
    /\ dbLog' = Append(dbLog, WipeOrder[k])
    /\ failure' = Rejected(WipeOrder[k])
    /\ thrown' = TRUE
    /\ pc' = "finally"
    /\ UNCHANGED <<dir, database, files, i, j, k, aggregates, summary, connected,
                   exitCode, inFlight, issued, web, ghosts>>

\* The oldest call in flight has rejected.
Reject(log) ==
    LET a == Len(log) - Len(inFlight) + 1
    IN  [log EXCEPT ![a].settled = TRUE, ![a].rejected = TRUE]

\* A variant in which a rejected createMany ends the run.
BatchFailsFatal ==
    /\ pc = "batches" /\ inFlight # <<>>
    /\ inFlight' = Tail(inFlight)
    /\ issued' = Reject(issued)
    /\ thrown' = TRUE
    /\ pc' = "finally"
    /\ UNCHANGED <<dir, database, files, i, j, k, aggregates, summary, connected,
                   exitCode, dbLog, failure, web, ghosts>>

\* A createMany rejects: the catch of the file loop logs the error and the
\* loop goes on to the next file, totalRecords as it was.
BatchFails ==
    /\ pc = "batches" /\ inFlight # <<>>
    /\ inFlight' = Tail(inFlight)
    /\ issued' = Reject(issued)
    /\ i' = i + 1
    /\ pc' = "files"
    /\ UNCHANGED <<dir, database, files, j, k, aggregates, thrown, summary, connected,
                   exitCode, dbLog, failure, web, ghosts>>

\* prisma.dailyGlobalStats.create rejects.
DailyGlobalStatsCreateFails ==
    /\ pc = "global" /\ k <= Len(globalStatsByDate)
    /\ dbLog' = Append(dbLog, "dailyGlobalStats.create")
    /\ failure' = Rejected("dailyGlobalStats.create")
    /\ thrown' = TRUE
    /\ pc' = "finally"
    /\ UNCHANGED <<dir, database, files, i, j, k, aggregates, summary, connected,
                   exitCode, inFlight, issued, web, ghosts>>

\* prisma.countryStats.create rejects.
CountryStatsCreateFails ==
    /\ pc = "country" /\ k <= Len(CountryEntries(countryStatsByDate))
    /\ dbLog' = Append(dbLog, "countryStats.create")
    /\ failure' = Rejected("countryStats.create")
    /\ thrown' = TRUE
    /\ pc' = "finally"
    /\ UNCHANGED <<dir, database, files, i, j, k, aggregates, summary, connected,
                   exitCode, inFlight, issued, web, ghosts>>

NextFaults ==
    \/ Next
    \/ DeleteManyFails
    \/ BatchFails
    \/ DailyGlobalStatsCreateFails
    \/ CountryStatsCreateFails

SpecFaults == Init /\ [][NextFaults]_vars

\* Two runs of the script, one after the other.
NextTwice == Next \/ Restore \/ Rerun

SpecTwice == Init /\ [][NextTwice]_vars


(***************************************************************************)
(* The loop body on its own: one record, drawn from the field values       *)
(* below, is put through LoopBody with an accumulator that is empty or     *)
(* already holds statistics of US.                                         *)
(***************************************************************************)
ConfirmedStrings == {"", "12", "x"}

DeathsStrings == {"", "20", "4x"}

RecoveredStrings == {"", "1", "-3"}

ActiveStrings == {"", "0", "5", "-2", "x", " 7", "1.9"}

RateStrings == {"", "0", "0.0", "2.5", "-1.5", "x", ".5"}

AliasRateStrings == {"", "1.5"}

RatioStrings == {"", "0", "0.25", "-0"}

AliasRatioStrings == {"", "3"}

Countries == {"", US}

SlashCountries == {"", France}

\* Records whose counts vary, and records whose rates vary.
CountProbes ==
    {RawRow(c, cs, "", "", cf, de, re, ac, "", "", "", "") :
        c \in Countries, cs \in SlashCountries, cf \in ConfirmedStrings,
        de \in DeathsStrings, re \in RecoveredStrings, ac \in ActiveStrings}

RateProbes ==
    {RawRow(c, cs, "", "", "9", "1", "", "", ir, ia, fr, fa) :
        c \in Countries, cs \in SlashCountries, ir \in RateStrings,
        ia \in AliasRateStrings, fr \in RatioStrings, fa \in AliasRatioStrings}

ProbeDate == [y |-> 2020, m |-> 3, d |-> 1]

StatsOfUS ==
    [confirmed |-> 100, deaths |-> 10, recovered |-> 20, active |-> 70,
     incidentRates |-> <<Dec(35, 1)>>, fatalityRatios |-> <<>>]

ProbeAccs ==
    {EmptyAcc(<<>>),
     [EmptyAcc(<<[key |-> US, val |-> StatsOfUS]>>) EXCEPT
         !.dailyConfirmed = 100, !.dailyDeaths = 10, !.dailyRecovered = 20,
         !.dailyActive = 70]}

InitRow ==
    /\ dir = MissingDir
    /\ DailyReport = <<>>
    /\ DailyGlobalStats = <<>>
    /\ CountryStats = <<>>
    /\ serial = [DailyReport |-> 1, DailyGlobalStats |-> 1, CountryStats |-> 1]
    /\ atStart = [DailyReport |-> <<>>, DailyGlobalStats |-> <<>>, CountryStats |-> <<>>]
    /\ ProcessStart
    /\ run = 1
    /\ finished = <<>>
    /\ response = <<>>
    /\ page = Mounted("UTC")
    /\ handler = Idle
    /\ population = NotRun
    /\ analytics = Closed
    /\ \E row \in CountProbes \cup RateProbes : \E acc \in ProbeAccs :
          probe = [row |-> <<row>>, acc |-> <<acc>>, out |-> <<>>]

\* One turn of `for (const row of rows)`.
RunLoopBody ==
    /\ probe.row # <<>> /\ probe.out = <<>>
    /\ probe' = [probe EXCEPT !.out = <<LoopBody(probe.acc[1], probe.row[1], ProbeDate)>>]
    /\ UNCHANGED <<dir, database, pc, files, i, j, k, aggregates, thrown, summary,
                   connected, exitCode, dbLog, calls, web, run, atStart,
                   finished>>

NextRow == RunLoopBody

SpecRow == InitRow /\ [][NextRow]_vars


(***************************************************************************)
(* GET /api/covid/stats (app/api/covid/stats/route.ts) and the Dashboard   *)
(* that shows its answer.  Of the answer the model keeps latestDate,       *)
(* global, countryTotals and topCountries; the trends, the data range, the *)
(* continents, the populations and the details of one country are left     *)
(* out.                                                                    *)
(***************************************************************************)
\* findFirst({ orderBy: { date: 'desc' } }): <<>>, or <<the row of the
\* latest date>>.
LatestGlobalStats(table) ==
    IF table = <<>> THEN <<>>
    ELSE <<table[CHOOSE n \in 1..Len(table) :
                    \A m \in 1..Len(table) :
                       ~Earlier(table[n].data.date, table[m].data.date)].data>>

\* orderBy: { date: 'desc' }.  Rows of one date are rows of different
\* countries (CountryStats_countryRegion_date_key); the order the database
\* gives them changes nothing below.
RECURSIVE OrderByDateDesc(_)
OrderByDateDesc(rows) ==
    IF rows = {} THEN <<>>
    ELSE LET first == CHOOSE r \in rows : \A o \in rows : ~Earlier(r.date, o.date)
         IN  <<first>> \o OrderByDateDesc(rows \ {first})

\* orderBy: { totalConfirmed: 'desc' }
RECURSIVE OrderByConfirmedDesc(_)
OrderByConfirmedDesc(rows) ==
    IF rows = {} THEN <<>>
    ELSE LET first == CHOOSE r \in rows : \A o \in rows : r.totalConfirmed >= o.totalConfirmed
         IN  <<first>> \o OrderByConfirmedDesc(rows \ {first})

\* current === 0 && entry.totalRecovered > 0
Upgrades(current, recovered) == current = 0 /\ recovered > 0

\* One turn of `for (const entry of recoveryCandidates)`.
RecoveryStep(map, country, recovered) ==
    IF ~MapHas(map, country) THEN MapSet(map, country, recovered)
    ELSE IF Upgrades(MapGet(map, country), recovered) THEN MapSet(map, country, recovered)
    ELSE map

RECURSIVE RecoveryMap(_, _)
RecoveryMap(map, candidates) ==
    IF candidates = <<>> THEN map
    ELSE RecoveryMap(RecoveryStep(map, Head(candidates).countryRegion,
                                  Head(candidates).totalRecovered),
                     Tail(candidates))

\* An entry of countryTotals and of topCountries, the population aside.
CountryJson(country, recovered) ==
    [country           |-> country.countryRegion,
     confirmed         |-> country.totalConfirmed,
     deaths            |-> country.totalDeaths,
     recovered         |-> recovered,
     active            |-> country.totalActive,
     incidentRate      |-> country.incidentRate,
     caseFatalityRatio |-> country.caseFatalityRatio]

\* adjustedCountryTotals
AdjustedTotals(countryTotals, recoveryMap) ==
    [n \in 1..Len(countryTotals) |->
        CountryJson(countryTotals[n],
                    IF MapHas(recoveryMap, countryTotals[n].countryRegion)
                    THEN MapGet(recoveryMap, countryTotals[n].countryRegion)
                    ELSE countryTotals[n].totalRecovered)]

\* adjustedCountryTotals.slice(0, 10)
TopCount == 10

\* latestGlobalStats.totalRecovered > 0 ? value : null
IfRecovered(total, value) == IF total > 0 THEN <<value>> ELSE <<>>

\* The dates of the answer are the ISO strings of JSON.stringify.
GlobalJson(g) ==
    [totalConfirmed      |-> g.totalConfirmed,
     totalDeaths         |-> g.totalDeaths,
     totalRecovered      |-> IfRecovered(g.totalRecovered, g.totalRecovered),
     totalActive         |-> g.totalActive,
     lastUpdate          |-> toISODate(g.date),
     recoveredLastUpdate |-> IfRecovered(g.totalRecovered, toISODate(g.date))]

StatsBody(latest, adjusted) ==
    [latestDate    |-> toISODate(latest.date),
     global        |-> <<GlobalJson(latest)>>,
     topCountries  |-> SubSeq(adjusted, 1, Min(TopCount, Len(adjusted))),
     countryTotals |-> adjusted]

\* The queries 4 and 4b and what is made of them.
StatsOf(latest, rows) ==
    StatsBody(latest,
              AdjustedTotals(
                  OrderByConfirmedDesc({r \in rows : r.date = latest.date}),
                  RecoveryMap(<<>>, OrderByDateDesc(
                      {r \in rows : ~Earlier(latest.date, r.date)}))))

NoData == [status |-> 404, body |-> [error |-> "No data available"]]

StatsAnswer(found, rows) ==
    IF found = <<>> THEN NoData
    ELSE [status |-> 200, body |-> StatsOf(found[1], rows)]

\* export async function GET(request), without the parameter `country`
GET(globalStats, countryStats) ==
    StatsAnswer(LatestGlobalStats(globalStats),
                {countryStats[n].data : n \in 1..Len(countryStats)})

\* The fetch has rejected, or res.json() has: there is nothing to read.
NoResponse == [status |-> 0, body |-> [error |-> "TypeError"]]

\* The handler answers the fetch of the Dashboard.
GetStats ==
    /\ response = <<>> /\ page.loading
    /\ response' = <<GET(DailyGlobalStats, CountryStats)>>
    /\ UNCHANGED <<dir, database, pc, files, i, j, k, aggregates, thrown, summary,
                   connected, exitCode, dbLog, calls, page, handler, population,
                   analytics, ghosts>>

\* A query rejects: the catch of the handler answers with status 500.
GetStatsFails ==
    /\ response = <<>> /\ page.loading
    /\ response' = <<[status |-> 500, body |-> [error |-> "Error retrieving stats"]]>>
    /\ UNCHANGED <<dir, database, pc, files, i, j, k, aggregates, thrown, summary,
                   connected, exitCode, dbLog, calls, page, handler, population,
                   analytics, ghosts>>

\* A variant that reads the body of every response, OK or not.
StatsLoadedAnyStatus ==
    /\ response # <<>> /\ response[1] # NoResponse /\ page.loading
    /\ page' = [page EXCEPT !.stats = <<response[1].body>>, !.loading = FALSE]
    /\ UNCHANGED <<dir, database, pc, files, i, j, k, aggregates, thrown, summary,
                   connected, exitCode, dbLog, calls, response, handler, population,
                   analytics, ghosts>>

\* .then(res => res.ok ? res.json() : null).then(data => { setStats(data);
\* setLoading(false) })
StatsLoaded ==
    /\ response # <<>> /\ response[1] # NoResponse /\ page.loading
    /\ page' = [page EXCEPT
                   !.stats = IF response[1].status = 200 THEN <<response[1].body>>
                             ELSE <<>>,
                   !.loading = FALSE]
    /\ UNCHANGED <<dir, database, pc, files, i, j, k, aggregates, thrown, summary,
                   connected, exitCode, dbLog, calls, response, handler, population,
                   analytics, ghosts>>

\* new Intl.NumberFormat('en-US').format(num) of a natural number: its
\* groups of three digits, which the text separates with commas.
RECURSIVE formatNumber(_)
formatNumber(num) ==
    IF num < 1000 THEN <<num>>
    ELSE Append(formatNumber(num \div 1000), num % 1000)

\* The day before a date.
DayBefore(date) ==
    IF date.d > 1 THEN [date EXCEPT !.d = @ - 1]
    ELSE IF date.m > 1
         THEN [y |-> date.y, m |-> date.m - 1, d |-> DaysInMonth(date.y, date.m - 1)]
         ELSE [y |-> date.y - 1, m |-> 12, d |-> 31]

\* The time zones of the viewers; the second one is behind UTC.
Zones == {"UTC", "America/New_York"}

\* The calendar day of midnight UTC of `date` in a time zone.
DayIn(zone, date) == IF zone = "America/New_York" THEN DayBefore(date) ELSE date

\* formatDate(value): new Intl.DateTimeFormat('en-US').format(new
\* Date(value)), month/day/year in the time zone of the browser; null for
\* a string that is no date.
formatDate(value, zone) ==
    IF newDate(value) = Invalid THEN <<>>
    ELSE <<[month |-> DayIn(zone, newDate(value)).m,
            day   |-> DayIn(zone, newDate(value)).d,
            year  |-> DayIn(zone, newDate(value)).y]>>

\* stats?.global?.totalRecovered ?? null
recoveredTotal(p) ==
    IF p.stats = <<>> \/ p.stats[1].global = <<>> THEN <<>>
    ELSE p.stats[1].global[1].totalRecovered

\* typeof recoveredTotal === 'number' && recoveredTotal > 0
hasRecoveredTotal(total) == total # <<>> /\ total[1] > 0

\* The card "Recovered worldwide" once the page has loaded: the number or
\* 'N/A', and under it 'Global total', with the last update when the answer
\* has one, or 'Data unavailable'.
RecoveredCard(p, total) ==
    IF hasRecoveredTotal(total)
    THEN [text       |-> "number",
          number     |-> formatNumber(total[1]),
          caption    |-> "Global total",
          lastUpdate |-> IF p.stats[1].global[1].recoveredLastUpdate = <<>> THEN <<>>
                         ELSE formatDate(p.stats[1].global[1].recoveredLastUpdate[1],
                                         p.zone)]
    ELSE [text |-> "N/A", number |-> <<>>, caption |-> "Data unavailable",
          lastUpdate |-> <<>>]

(***************************************************************************)
(* The tables the handler may find: for each of MaxDays days of March      *)
(* 2020, no report, or a report with or without a row of the US and of     *)
(* France; the global row of a day holds the sums of its country rows, as  *)
(* an import of one file per day leaves them.                              *)
(***************************************************************************)
MaxDays == 3

StatsDay(n) == [y |-> 2020, m |-> 3, d |-> n]

\* The recovered totals a country may have on a day; <<>> when the day's
\* report has no row of it.
RecoveredOfUS == {<<>>, <<-3>>, <<0>>, <<2>>}

RecoveredOfFrance == {<<>>, <<0>>, <<1500>>}

Reports == {<<>>} \cup {<<[us |-> u, fr |-> f]>> : u \in RecoveredOfUS, f \in RecoveredOfFrance}

CountryRow(country, date, confirmed, recovered) ==
    [countryRegion |-> country, date |-> date, totalConfirmed |-> confirmed,
     totalDeaths |-> 0, totalRecovered |-> recovered,
     totalActive |-> confirmed - recovered,
     incidentRate |-> <<>>, caseFatalityRatio |-> <<>>]

\* The country rows of the report of day n.
CountryRowsOf(report, n) ==
    (IF report.us = <<>> THEN <<>> ELSE <<CountryRow(US, StatsDay(n), 1000, report.us[1])>>)
    \o (IF report.fr = <<>> THEN <<>>
        ELSE <<CountryRow(France, StatsDay(n), 7, report.fr[1])>>)

GlobalRowOf(rows, n) ==
    [date |-> StatsDay(n),
     totalConfirmed |-> SumOfField(rows, "totalConfirmed"),
     totalDeaths    |-> SumOfField(rows, "totalDeaths"),
     totalRecovered |-> SumOfField(rows, "totalRecovered"),
     totalActive    |-> SumOfField(rows, "totalActive")]

RECURSIVE CountryRowsUpTo(_, _)
CountryRowsUpTo(history, n) ==
    IF n = 0 THEN <<>>
    ELSE CountryRowsUpTo(history, n - 1)
         \o (IF history[n] = <<>> THEN <<>> ELSE CountryRowsOf(history[n][1], n))

RECURSIVE GlobalRowsUpTo(_, _)
GlobalRowsUpTo(history, n) ==
    IF n = 0 THEN <<>>
    ELSE GlobalRowsUpTo(history, n - 1)
         \o (IF history[n] = <<>> THEN <<>>
             ELSE <<GlobalRowOf(CountryRowsOf(history[n][1], n), n)>>)

WithIds(rows) == [n \in 1..Len(rows) |-> [id |-> n, data |-> rows[n]]]

InitStats ==
    /\ dir = MissingDir
    /\ DailyReport = <<>>
    /\ \E history \in [1..MaxDays -> Reports] :
          /\ DailyGlobalStats = WithIds(GlobalRowsUpTo(history, MaxDays))
          /\ CountryStats = WithIds(CountryRowsUpTo(history, MaxDays))
    /\ serial = [DailyReport |-> 1, DailyGlobalStats |-> Len(DailyGlobalStats) + 1,
                 CountryStats |-> Len(CountryStats) + 1]
    /\ atStart = [DailyReport |-> <<>>, DailyGlobalStats |-> <<>>, CountryStats |-> <<>>]
    /\ ProcessStart
    /\ run = 1
    /\ finished = <<>>
    /\ probe = NoProbe
    /\ response = <<>>
    /\ \E zone \in Zones : page = Mounted(zone)
    /\ handler = Idle
    /\ population = NotRun
    /\ analytics = Closed

NextStats == GetStats \/ GetStatsFails \/ StatsLoaded

SpecStats == InitStats /\ [][NextStats]_vars

\* The network fails or the body is not JSON: the promise rejects.
FetchRejects ==
    /\ page.loading
    /\ IF response = <<>> THEN TRUE ELSE response[1].status = 200
    /\ response' = <<NoResponse>>
    /\ UNCHANGED <<dir, database, pc, files, i, j, k, aggregates, thrown, summary,
                   connected, exitCode, dbLog, calls, page, handler, population,
                   analytics, ghosts>>

\* .catch(error => { console.error(...); setLoading(false) })
StatsNotLoaded ==
    /\ response = <<NoResponse>> /\ page.loading
    /\ page' = [page EXCEPT !.loading = FALSE]
    /\ UNCHANGED <<dir, database, pc, files, i, j, k, aggregates, thrown, summary,
                   connected, exitCode, dbLog, calls, response, handler, population,
                   analytics, ghosts>>

NextDashboard == NextStats \/ FetchRejects \/ StatsNotLoaded

\* The promise of the fetch settles, one way or the other.
FetchSettles == FetchRejects \/ GetStatsFails \/ GetStats

\* The callback of the settled promise runs.
CallbackRuns == StatsNotLoaded \/ StatsLoaded

SpecDashboard ==
    InitStats /\ [][NextDashboard]_vars /\ WF_vars(FetchSettles) /\ WF_vars(CallbackRuns)

(***************************************************************************)
(* A request to GET /api/covid/stats served while the import is at work.   *)
(* The handler awaits each query: the import may take steps between the    *)
(* first findFirst and the queries that follow it.                         *)
(***************************************************************************)
\* The import has wiped DailyGlobalStats and has inserted no row into it yet.
BetweenWipeAndInsert ==
    /\ \E n \in 1..Len(dbLog) : dbLog[n] = "dailyGlobalStats.deleteMany"
    /\ \A n \in 1..Len(dbLog) : dbLog[n] # "dailyGlobalStats.create"

\* What the handler keeps of its first query, and what the tables were then.
Found(latestDateResult) ==
    [at |-> "found", latestDateResult |-> latestDateResult,
     noRow |-> DailyGlobalStats = <<>>, inWindow |-> BetweenWipeAndInsert,
     details |-> Len(DailyReport)]

\* A variant that takes the most recent date from the detail rows.
FindLatestDateOfReports ==
    /\ handler.at = "idle" /\ response = <<>> /\ page.loading
    /\ handler' = Found(IF DailyReport = <<>> THEN <<>>
                        ELSE <<DailyReport[Len(DailyReport)].data.reportDate>>)
    /\ UNCHANGED <<dir, database, pc, files, i, j, k, aggregates, thrown, summary,
                   connected, exitCode, dbLog, calls, response, page, population,
                   analytics, ghosts>>

\* prisma.dailyGlobalStats.findFirst({ orderBy: { date: 'desc' }, select: { date } })
FindLatestDate ==
    /\ handler.at = "idle" /\ response = <<>> /\ page.loading
    /\ handler' = Found(IF DailyGlobalStats = <<>> THEN <<>>
                        ELSE <<LatestGlobalStats(DailyGlobalStats)[1].date>>)
    /\ UNCHANGED <<dir, database, pc, files, i, j, k, aggregates, thrown, summary,
                   connected, exitCode, dbLog, calls, response, page, population,
                   analytics, ghosts>>

\* The body when the first query found latestDate: the global-stats row of
\* that date, null when it is gone, and the country rows as they are now.
StatsAt(latestDate, globalStats, rows) ==
    LET g == SelectSeq(Data(globalStats), LAMBDA r : r.date = latestDate)
        adjusted == AdjustedTotals(
                        OrderByConfirmedDesc({r \in rows : r.date = latestDate}),
                        RecoveryMap(<<>>, OrderByDateDesc(
                            {r \in rows : ~Earlier(latestDate, r.date)})))
    IN  [latestDate    |-> toISODate(latestDate),
         global        |-> IF g = <<>> THEN <<>> ELSE <<GlobalJson(g[1])>>,
         topCountries  |-> SubSeq(adjusted, 1, Min(TopCount, Len(adjusted))),
         countryTotals |-> adjusted]

\* if (!latestDateResult) return 404, else the queries 2 to 4b and the body
AnswerStats ==
    /\ handler.at = "found"
    /\ response' =
          IF handler.latestDateResult = <<>> THEN <<NoData>>
          ELSE <<[status |-> 200,
                  body |-> StatsAt(handler.latestDateResult[1], DailyGlobalStats,
                                   {CountryStats[n].data : n \in 1..Len(CountryStats)})]>>
    /\ handler' = [handler EXCEPT !.at = "answered"]
    /\ UNCHANGED <<dir, database, pc, files, i, j, k, aggregates, thrown, summary,
                   connected, exitCode, dbLog, calls, page, population, analytics,
                   ghosts>>

NextServe == Next \/ FindLatestDate \/ AnswerStats \/ StatsLoaded

\* One run of the import and one request of the Dashboard, interleaved.
SpecServe == Init /\ [][NextServe]_vars

(***************************************************************************)
(* GET /api/covid/timeline.  The parameters of the URL are strings, "" for *)
(* a parameter that is not given.                                          *)
(***************************************************************************)
DefaultLimit == 90

\* parseInt(searchParams.get('limit') || '90')
limitOf(param) == IF param = "" THEN <<DefaultLimit>> ELSE parseInt(param)

\* new Date(param), kept when its time is a number
DateParam(param) ==
    IF param = "" \/ newDate(Spell(param)) = Invalid THEN <<>>
    ELSE <<newDate(Spell(param))>>

\* { gte: startDate, lte: endDate } after the swap, <<>> for null
dateFilter(startDate, endDate) ==
    IF startDate = <<>> /\ endDate = <<>> THEN <<>>
    ELSE IF startDate # <<>> /\ endDate # <<>> /\ Earlier(endDate[1], startDate[1])
         THEN <<[gte |-> endDate, lte |-> startDate]>>
         ELSE <<[gte |-> startDate, lte |-> endDate]>>

\* where: { date: dateFilter }
InFilter(filter, date) ==
    /\ filter.gte # <<>> => ~Earlier(date, filter.gte[1])
    /\ filter.lte # <<>> => ~Earlier(filter.lte[1], date)

\* take: n of findMany: the first n rows of the ordered list, the last -n
\* rows of it when n is negative.
Take(rows, n) ==
    IF n >= 0 THEN SubSeq(rows, 1, Min(n, Len(rows)))
    ELSE SubSeq(rows, Len(rows) - Min(-n, Len(rows)) + 1, Len(rows))

\* findMany({ where, orderBy: { date: 'desc' }, take: limit }); take is left
\* out with a date filter.  A limit that is not a number takes nothing away.
findMany(rows, filter, limit) ==
    IF filter # <<>>
    THEN OrderByDateDesc({r \in rows : InFilter(filter[1], r.date)})
    ELSE IF limit = NaN THEN OrderByDateDesc(rows)
    ELSE Take(OrderByDateDesc(rows), limit[1])

reverse(list) == [n \in 1..Len(list) |-> list[Len(list) + 1 - n]]

\* populationByYear.get(stat.date.getUTCFullYear()) ?? null
populationOf(table, country, year) ==
    IF \E n \in 1..Len(table) : table[n].country = country /\ table[n].year = year
    THEN <<table[CHOOSE n \in 1..Len(table) :
                    table[n].country = country /\ table[n].year = year].population>>
    ELSE <<>>

\* One entry of the timeline; newDeaths is NULL in the rows of the import.
TimelineEntry(arr, index, deathsMode, people) ==
    LET stat        == arr[index]
        dailyDeaths == IF index > 1 THEN stat.totalDeaths - arr[index - 1].totalDeaths
                       ELSE stat.totalDeaths
    IN  [date       |-> stat.date,
         confirmed  |-> stat.totalConfirmed,
         deaths     |-> IF deathsMode = "daily" THEN dailyDeaths ELSE stat.totalDeaths,
         newDeaths  |-> dailyDeaths,
         recovered  |-> IfRecovered(stat.totalRecovered, stat.totalRecovered),
         active     |-> stat.totalActive,
         population |-> people]

\* The body of the answer: country is <<>> in the global timeline.
TimelineBody(q, found, table) ==
    LET arr == reverse(found)
    IN  [country  |-> IF q.country = "" THEN <<>> ELSE <<q.country>>,
         timeline |-> [n \in 1..Len(arr) |->
                          TimelineEntry(arr, n, q.deathsMode,
                                        IF q.country = "" THEN <<>>
                                        ELSE populationOf(table, q.country,
                                                          arr[n].date.y))]]

\* export async function GET(request)
Timeline(q, globalStats, countryStats, table) ==
    LET filter == dateFilter(DateParam(q.startDate), DateParam(q.endDate))
        rows   == IF q.country # ""
                  THEN {countryStats[n].data : n \in 1..Len(countryStats)}
                  ELSE {globalStats[n].data : n \in 1..Len(globalStats)}
        mine   == {r \in rows : q.country # "" => r.countryRegion = q.country}
    IN  [status |-> 200,
         body   |-> TimelineBody(q, findMany(mine, filter, limitOf(q.limit)), table)]

\* The handler answers the request.  A limit that is not a number, passed
\* as take, is either rejected by the client of the database or left out
\* of the query.
GetTimeline ==
    /\ handler.at = "asked" /\ response = <<>>
    /\ \/ /\ limitOf(handler.limit) = NaN
          /\ dateFilter(DateParam(handler.startDate), DateParam(handler.endDate)) = <<>>
          /\ response' = <<[status |-> 500, body |-> [error |-> "Error retrieving timeline"]]>>
       \/ response' = <<Timeline(handler, DailyGlobalStats, CountryStats, population.table)>>
    /\ handler' = [handler EXCEPT !.at = "answered"]
    /\ UNCHANGED <<dir, database, pc, files, i, j, k, aggregates, thrown, summary,
                   connected, exitCode, dbLog, calls, page, population, analytics,
                   ghosts>>

\* A query rejects: the catch of the handler answers with status 500.
GetTimelineFails ==
    /\ handler.at = "asked" /\ response = <<>>
    /\ response' = <<[status |-> 500, body |-> [error |-> "Error retrieving timeline"]]>>
    /\ handler' = [handler EXCEPT !.at = "answered"]
    /\ UNCHANGED <<dir, database, pc, files, i, j, k, aggregates, thrown, summary,
                   connected, exitCode, dbLog, calls, page, population, analytics,
                   ghosts>>

LimitParams == {"", "1", "2", "0", "-2", "4x", "x"}

StartDateParams == {"", "2020-03-02", "2020-03-03", "x"}

EndDateParams == {"", "2020-03-02", "x"}

\* What day n reported: nothing, the US alone, the US and France.
TimelineReports ==
    {<<>>, <<[us |-> <<2>>, fr |-> <<>>]>>, <<[us |-> <<0>>, fr |-> <<1500>>]>>}

PopulationTables == {<<>>, <<[country |-> US, year |-> 2020, population |-> 331]>>}

Asked(country, limit, startDate, endDate, deathsMode) ==
    [at |-> "asked", country |-> country, limit |-> limit, startDate |-> startDate,
     endDate |-> endDate, deathsMode |-> deathsMode]

InitTimeline ==
    /\ dir = MissingDir
    /\ DailyReport = <<>>
    /\ \E history \in [1..MaxDays -> TimelineReports] :
          /\ DailyGlobalStats = WithIds(GlobalRowsUpTo(history, MaxDays))
          /\ CountryStats = WithIds(CountryRowsUpTo(history, MaxDays))
    /\ serial = [DailyReport |-> 1, DailyGlobalStats |-> Len(DailyGlobalStats) + 1,
                 CountryStats |-> Len(CountryStats) + 1]
    /\ atStart = [DailyReport |-> <<>>, DailyGlobalStats |-> <<>>, CountryStats |-> <<>>]
    /\ ProcessStart
    /\ run = 1
    /\ finished = <<>>
    /\ probe = NoProbe
    /\ response = <<>>
    /\ page = Mounted("UTC")
    /\ \E country \in {"", US} : \E limit \in LimitParams :
       \E startDate \in StartDateParams : \E endDate \in EndDateParams :
       \E deathsMode \in {"", "daily"} :
          handler = Asked(country, limit, startDate, endDate, deathsMode)
    /\ \E table \in PopulationTables : population = [at |-> "off", table |-> table]
    /\ analytics = Closed

NextTimeline == GetTimeline \/ GetTimelineFails

SpecTimeline == InitTimeline /\ [][NextTimeline]_vars

(***************************************************************************)
(* The analytics page.  Every change of the selected country, the period,  *)
(* the start date or the view mode gives loadData a new identity and the   *)
(* effect calls it; a call keeps the values it was made with.  An answer   *)
(* of the timeline route is known by the request it answers.               *)
(***************************************************************************)
MaxChanges == 2

DefaultPeriod == 90

\* buildTimelineParams(): deathsMode with startDate and endDate, the end
\* being period - 1 days after the start, or with limit
buildTimelineParams(period, startDate, timelineMode) ==
    [deathsMode |-> timelineMode,
     startDate  |-> DateParam(startDate),
     days       |-> IF DateParam(startDate) # <<>> THEN <<period>> ELSE <<>>,
     limit      |-> IF DateParam(startDate) # <<>> THEN <<>> ELSE <<period>>]

\* What /api/covid/timeline answers to a request: its timeline.
TimelineFor(country, params) == [country |-> country, params |-> params]

\* A call of loadData: the values of its closure and the await it is at.
Load(a) ==
    [selectedCountry |-> a.selectedCountry,
     params |-> buildTimelineParams(a.period, a.startDate, a.timelineMode),
     at |-> "global"]

\* useEffect(() => { loadData() }, [loadData]): setLoading(true), then the
\* first fetch is issued.
loadData(a) == [a EXCEPT !.loading = TRUE, !.loads = Append(@, Load(a))]

\* The page at mount, its first loadData called.
Opened ==
    loadData([at |-> "open", selectedCountry |-> "", period |-> DefaultPeriod,
              startDate |-> "", timelineMode |-> "cumulative",
              globalTimeline |-> <<>>, countryTimeline |-> <<>>, loading |-> TRUE,
              loads |-> <<>>, changes |-> 0, errors |-> 0])

Remove(list, n) == SubSeq(list, 1, n - 1) \o SubSeq(list, n + 1, Len(list))

\* finally { setLoading(false) }: the call has returned.
Returned(a, n) == [a EXCEPT !.loading = FALSE, !.loads = Remove(@, n)]

\* The user picks a country, a period, a start date or a view mode.
Change ==
    /\ analytics.at = "open" /\ analytics.changes < MaxChanges
    /\ \E country \in {"", US, France} : \E period \in {DefaultPeriod, 30} :
       \E startDate \in {"", "2020-03-02"} : \E timelineMode \in {"cumulative", "daily"} :
          LET a == [analytics EXCEPT !.selectedCountry = country, !.period = period,
                                     !.startDate = startDate,
                                     !.timelineMode = timelineMode]
          IN  /\ Cardinality({f \in {"selectedCountry", "period", "startDate",
                                     "timelineMode"} : a[f] # analytics[f]}) = 1
              /\ analytics' = loadData([a EXCEPT !.changes = @ + 1])
    /\ UNCHANGED <<dir, database, pc, files, i, j, k, aggregates, thrown, summary,
                   connected, exitCode, dbLog, calls, response, page, handler,
                   population, ghosts>>

\* The global timeline of a call has arrived: setGlobalTimeline, then the
\* fetch of /api/covid/stats.
GlobalTimelineLoaded ==
    /\ analytics.at = "open"
    /\ \E n \in 1..Len(analytics.loads) :
          /\ analytics.loads[n].at = "global"
          /\ analytics' =
                [analytics EXCEPT
                    !.globalTimeline = <<TimelineFor("", analytics.loads[n].params)>>,
                    !.loads[n].at = "stats"]
    /\ UNCHANGED <<dir, database, pc, files, i, j, k, aggregates, thrown, summary,
                   connected, exitCode, dbLog, calls, response, page, handler,
                   population, ghosts>>

\* The statistics have arrived: the list of countries holds the selected
\* one; without a selected country the call returns.
CountriesLoaded ==
    /\ analytics.at = "open"
    /\ \E n \in 1..Len(analytics.loads) :
          /\ analytics.loads[n].at = "stats"
          /\ analytics' =
                IF analytics.loads[n].selectedCountry = "" THEN Returned(analytics, n)
                ELSE [analytics EXCEPT !.loads[n].at = "country"]
    /\ UNCHANGED <<dir, database, pc, files, i, j, k, aggregates, thrown, summary,
                   connected, exitCode, dbLog, calls, response, page, handler,
                   population, ghosts>>

\* The timeline of the country of a call has arrived: setCountryTimeline,
\* and the call returns.
CountryTimelineLoaded ==
    /\ analytics.at = "open"
    /\ \E n \in 1..Len(analytics.loads) :
          /\ analytics.loads[n].at = "country"
          /\ analytics' =
                Returned([analytics EXCEPT
                             !.countryTimeline =
                                 <<TimelineFor(analytics.loads[n].selectedCountry,
                                               analytics.loads[n].params)>>], n)
    /\ UNCHANGED <<dir, database, pc, files, i, j, k, aggregates, thrown, summary,
                   connected, exitCode, dbLog, calls, response, page, handler,
                   population, ghosts>>

\* A fetch of a call rejects, or its body is not JSON: catch logs the error.
LoadFails ==
    /\ analytics.at = "open"
    /\ \E n \in 1..Len(analytics.loads) :
          analytics' = Returned([analytics EXCEPT !.errors = @ + 1], n)
    /\ UNCHANGED <<dir, database, pc, files, i, j, k, aggregates, thrown, summary,
                   connected, exitCode, dbLog, calls, response, page, handler,
                   population, ghosts>>

InitAnalytics ==
    /\ dir = MissingDir
    /\ DailyReport = <<>> /\ DailyGlobalStats = <<>> /\ CountryStats = <<>>
    /\ serial = [DailyReport |-> 1, DailyGlobalStats |-> 1, CountryStats |-> 1]
    /\ atStart = [DailyReport |-> <<>>, DailyGlobalStats |-> <<>>, CountryStats |-> <<>>]
    /\ ProcessStart
    /\ run = 1
    /\ finished = <<>>
    /\ probe = NoProbe
    /\ response = <<>>
    /\ page = Mounted("UTC")
    /\ handler = Idle
    /\ population = NotRun
    /\ analytics = Opened

NextAnalytics ==
    \/ Change
    \/ GlobalTimelineLoaded
    \/ CountriesLoaded
    \/ CountryTimelineLoaded
    \/ LoadFails

SpecAnalytics == InitAnalytics /\ [][NextAnalytics]_vars

(***************************************************************************)
(* The population import.  The file is a sequence of lines, a line a       *)
(* sequence of cells; the header is the first line whose first cell is     *)
(* Country Name.  Papa.parse names the cells of each later line, the empty *)
(* lines aside, after the cells of the header.                             *)
(***************************************************************************)
\* chunkSize is 1000 in the script; the model's files are short.
chunkSize == 2

YEARS == <<"2020", "2021", "2022", "2023">>

\* lines.findIndex(line => line.startsWith('"Country Name"') || ...), 0 for -1
headerIndex(lines) ==
    IF \E n \in 1..Len(lines) : lines[n] # <<>> /\ lines[n][1] = "Country Name"
    THEN CHOOSE n \in 1..Len(lines) :
            /\ lines[n] # <<>> /\ lines[n][1] = "Country Name"
            /\ \A m \in 1..(n - 1) : lines[m] = <<>> \/ lines[m][1] # "Country Name"
    ELSE 0

\* row[name] for a parsed line: "" when the line has no such cell.
Cell(header, line, name) ==
    IF \E n \in 1..Min(Len(header), Len(line)) : header[n] = name
    THEN line[CHOOSE n \in 1..Min(Len(header), Len(line)) : header[n] = name]
    ELSE ""

\* Number(value) on the characters in use: the whole string, white space
\* aside, is a decimal numeral, or Infinity; NaN otherwise.
Infinity == [n |-> 1, d |-> -1]

Number(value) ==
    LET t    == TrimLeft(Spell(value))
        neg  == t # <<>> /\ t[1] = "-"
        body == IF neg THEN Tail(t) ELSE t
        w    == DigitPrefixLen(body)
        rest == SubSeq(body, w + 1, Len(body))
        f    == IF rest # <<>> /\ rest[1] = "." THEN DigitPrefixLen(Tail(rest)) ELSE 0
        used == w + (IF rest # <<>> /\ rest[1] = "." THEN 1 + f ELSE 0)
    IN  IF t = <<>> THEN <<Zero>>
        ELSE IF value = "Infinity" THEN <<Infinity>>
        ELSE IF used = Len(body) /\ w + f > 0 THEN DecimalPrefix(t)
        ELSE NaN

isFinite(x) == x # NaN /\ x[1] # Infinity

\* Math.trunc of a decimal number
trunc(x) ==
    IF x.n >= 0 THEN x.n \div Pow10(x.d) ELSE -((-x.n) \div Pow10(x.d))

\* The entries of one row: one for each year of YEARS whose cell is a
\* finite number.
RECURSIVE EntriesOfRow(_, _, _)
EntriesOfRow(header, line, years) ==
    IF years = <<>> THEN <<>>
    ELSE LET value == Cell(header, line, Head(years))
         IN  (IF value = "" \/ ~isFinite(Number(value)) THEN <<>>
              ELSE <<[country    |-> Cell(header, line, "Country Name"),
                      year       |-> trunc(Number(Head(years))[1]),
                      population |-> trunc(Number(value)[1])]>>)
             \o EntriesOfRow(header, line, Tail(years))

\* for (const row of rows): rows without a country are passed over
RECURSIVE EntriesOf(_, _)
EntriesOf(header, lines) ==
    IF lines = <<>> THEN <<>>
    ELSE (IF Head(lines) = <<>> \/ Cell(header, Head(lines), "Country Name") = ""
          THEN <<>>
          ELSE EntriesOfRow(header, Head(lines), YEARS))
         \o EntriesOf(header, Tail(lines))

\* CountryPopulation_country_year_key
PopulationConflicts(a, b) == a.country = b.country /\ a.year = b.year

\* prisma.countryPopulation.createMany({ data: chunk, skipDuplicates: true })
RECURSIVE createManyPopulation(_, _, _)
createManyPopulation(table, chunk, nextId) ==
    IF chunk = <<>> THEN [table |-> table, nextId |-> nextId]
    ELSE LET dup == \E n \in 1..Len(table) : PopulationConflicts(table[n].data, Head(chunk))
         IN  createManyPopulation(
                 IF dup THEN table
                 ELSE Append(table, [id |-> nextId, data |-> Head(chunk)]),
                 Tail(chunk), nextId + 1)

\* The script at its start, on a file and a table.
Started(file, table) ==
    [at |-> "start", file |-> file, table |-> table, before |-> table,
     nextId |-> Len(table) + 1, entries |-> <<>>, i |-> 0, inFlight |-> <<>>,
     log |-> <<>>, connected |-> TRUE, exitCode |-> -1]

\* A variant that clears the table before it reads the file.
loadRowsAfterDelete ==
    /\ population.at = "start"
    /\ LET file == population.file
           h    == headerIndex(file.lines)
       IN  population' =
              IF ~file.exists \/ h = 0
              THEN [population EXCEPT !.at = "exited", !.exitCode = 1, !.table = <<>>]
              ELSE [population EXCEPT
                       !.entries = EntriesOf(file.lines[h],
                                             SubSeq(file.lines, h + 1, Len(file.lines))),
                       !.at = "delete"]
    /\ UNCHANGED <<dir, database, pc, files, i, j, k, aggregates, thrown, summary,
                   connected, exitCode, dbLog, calls, response, page, handler,
                   analytics, ghosts>>

\* loadRows() and the loop that builds the entries.  readFileSync throws on
\* a missing file, loadRows on a file without a header: the catch of the
\* script calls process.exit(1).
loadRows ==
    /\ population.at = "start"
    /\ LET file == population.file
           h    == headerIndex(file.lines)
       IN  population' =
              IF ~file.exists \/ h = 0
              THEN [population EXCEPT !.at = "exited", !.exitCode = 1]
              ELSE [population EXCEPT
                       !.entries = EntriesOf(file.lines[h],
                                             SubSeq(file.lines, h + 1, Len(file.lines))),
                       !.at = "delete"]
    /\ UNCHANGED <<dir, database, pc, files, i, j, k, aggregates, thrown, summary,
                   connected, exitCode, dbLog, calls, response, page, handler,
                   analytics, ghosts>>

\* await prisma.countryPopulation.deleteMany({})
DeletePopulation ==
    /\ population.at = "delete"
    /\ population' = [population EXCEPT
                         !.table = <<>>,
                         !.log = Append(@, [call |-> "deleteMany", rows |-> <<>>]),
                         !.at = "chunks"]
    /\ UNCHANGED <<dir, database, pc, files, i, j, k, aggregates, thrown, summary,
                   connected, exitCode, dbLog, calls, response, page, handler,
                   analytics, ghosts>>

\* createMany is called on entries.slice(i, i + chunkSize); the loop waits.
InsertChunk ==
    /\ population.at = "chunks" /\ population.inFlight = <<>>
    /\ population.i < Len(population.entries)
    /\ LET chunk == SubSeq(population.entries, population.i + 1,
                           Min(population.i + chunkSize, Len(population.entries)))
       IN  population' = [population EXCEPT
                             !.inFlight = <<chunk>>,
                             !.log = Append(@, [call |-> "createMany", rows |-> chunk])]
    /\ UNCHANGED <<dir, database, pc, files, i, j, k, aggregates, thrown, summary,
                   connected, exitCode, dbLog, calls, response, page, handler,
                   analytics, ghosts>>

\* The call resolves; i += chunkSize.
ChunkInserted ==
    /\ population.at = "chunks" /\ population.inFlight # <<>>
    /\ LET res == createManyPopulation(population.table, population.inFlight[1],
                                       population.nextId)
       IN  population' = [population EXCEPT
                             !.table = res.table, !.nextId = res.nextId,
                             !.inFlight = <<>>, !.i = @ + chunkSize]
    /\ UNCHANGED <<dir, database, pc, files, i, j, k, aggregates, thrown, summary,
                   connected, exitCode, dbLog, calls, response, page, handler,
                   analytics, ghosts>>

\* .finally(async () => { await prisma.$disconnect() }); the process ends.
PopulationImported ==
    /\ population.at = "chunks" /\ population.inFlight = <<>>
    /\ population.i >= Len(population.entries)
    /\ population' = [population EXCEPT
                         !.log = Append(@, [call |-> "$disconnect", rows |-> <<>>]),
                         !.connected = FALSE, !.at = "exited", !.exitCode = 0]
    /\ UNCHANGED <<dir, database, pc, files, i, j, k, aggregates, thrown, summary,
                   connected, exitCode, dbLog, calls, response, page, handler,
                   analytics, ghosts>>

\* The lines of the files: what stands before the header, the header, rows.
DataSourceLine == <<"Data Source", "World Development Indicators">>

HeaderLine == <<"Country Name", "2019", "2020", "2021">>

PopulationLines ==
    {<<US, "1000", "331", "332">>, <<US, "5", "7", "">>, <<France, "9", "2.5", "4x">>,
     <<"", "1", "1", "1">>, <<France, "1", "Infinity">>, <<>>}

PopulationFiles ==
    {[exists |-> FALSE, lines |-> <<>>]}
    \cup {[exists |-> TRUE, lines |-> before \o header \o rows] :
             before \in {<<>>, <<DataSourceLine>>},
             header \in {<<>>, <<HeaderLine>>},
             rows \in SeqsUpTo(PopulationLines, 2)}

StalePopulation == <<[id |-> 1, data |-> [country |-> US, year |-> 2020, population |-> 1]]>>

InitPopulation ==
    /\ dir = MissingDir
    /\ DailyReport = <<>> /\ DailyGlobalStats = <<>> /\ CountryStats = <<>>
    /\ serial = [DailyReport |-> 1, DailyGlobalStats |-> 1, CountryStats |-> 1]
    /\ atStart = [DailyReport |-> <<>>, DailyGlobalStats |-> <<>>, CountryStats |-> <<>>]
    /\ ProcessStart
    /\ run = 1
    /\ finished = <<>>
    /\ probe = NoProbe
    /\ response = <<>>
    /\ page = Mounted("UTC")
    /\ handler = Idle
    /\ \E file \in PopulationFiles : \E table \in {<<>>, StalePopulation} :
          population = Started(file, table)
    /\ analytics = Closed

NextPopulation ==
    \/ loadRows
    \/ DeletePopulation
    \/ InsertChunk
    \/ ChunkInserted
    \/ PopulationImported

SpecPopulation == InitPopulation /\ [][NextPopulation]_vars

(***************************************************************************)
(* Properties.                                                             *)
(***************************************************************************)
Phase(op) ==
    IF op = WipeOrder[1] \/ op = WipeOrder[2] \/ op = WipeOrder[3] THEN 1
    ELSE IF op = "dailyReport.createMany" THEN 2
    ELSE IF op = "dailyGlobalStats.create" THEN 3
    ELSE IF op = "countryStats.create" THEN 4
    ELSE 5

IsInsert(op) == Phase(op) \in {2, 3, 4}

Count(log, op) == Cardinality({n \in 1..Len(log) : log[n] = op})

\* C1: in every run the three deleteMany calls complete before the first
\* insert of any kind, every detail batch insert precedes the first
\* global-stats insert, and every global-stats insert precedes the first
\* country-stats insert.
C1_StepOrder ==
    /\ \A a \in 1..(Len(dbLog) - 1) : Phase(dbLog[a]) <= Phase(dbLog[a + 1])
    /\ (\E a \in 1..Len(dbLog) : IsInsert(dbLog[a]))
          => Len(dbLog) >= 3 /\ SubSeq(dbLog, 1, 3) = WipeOrder

\* A finished run with detail batches of two files, global and country inserts.
C1_Witness ==
    /\ pc = "exited"
    /\ Count(dbLog, "dailyReport.createMany") >= 2
    /\ Len(globalStatsByDate) = 2
    /\ Count(dbLog, "dailyGlobalStats.create") = 2
    /\ Count(dbLog, "countryStats.create") >= 2

\* C2: when the input directory does not exist, no delete and no insert is
\* issued, the three tables stay as the run found them, and the process
\* exits with a non-zero status.
C2_MissingDirectory ==
    ~dir.exists =>
        /\ Tables = atStart
        /\ \A a \in 1..Len(dbLog) : Phase(dbLog[a]) = 5
        /\ exitCode # 0
        /\ pc = "exited" => exitCode = 1

\* The run on a missing directory has exited and the stale rows are still there.
C2_Witness ==
    /\ ~dir.exists
    /\ pc = "exited"
    /\ DailyReport # <<>> /\ DailyGlobalStats # <<>> /\ CountryStats # <<>>

(***************************************************************************)
(* What the directory should yield, read off the directory itself.         *)
(***************************************************************************)
\* The pattern of parseDate occurs somewhere in the name.
HasDatePattern(name) == \E p \in 1..Len(Spell(name)) : MatchAt(Spell(name), p)

DateOf(name) == parseDate(name).date

\* The files a run should import: .csv names that hold the pattern, resolve
\* to a valid date and can be read.
Imported ==
    {n \in DOMAIN dir.entries :
        /\ endsWith(n, DotCsv) /\ HasDatePattern(n)
        /\ dir.entries[n].readable
        /\ DateOf(n) # Invalid}

\* The country of a record under either header; "" when it has none.
CountryOf(row) == OrElse(row.Country_Region, row.CountrySlash)

IsAccepted(row) == CountryOf(row) # ""

\* The records of the files of N, one file after the other.
RECURSIVE RowsOf(_)
RowsOf(N) ==
    IF N = {} THEN <<>>
    ELSE LET n == CHOOSE n \in N : TRUE
         IN  dir.entries[n].rows \o RowsOf(N \ {n})

\* The accepted records of the imported files that resolve to date D.
AcceptedOn(D) == SelectSeq(RowsOf({n \in Imported : DateOf(n) = D}), IsAccepted)

RECURSIVE SumOf(_, _)
SumOf(f, S) ==
    IF S = {} THEN 0
    ELSE LET x == CHOOSE x \in S : TRUE
         IN  f[x] + SumOf(f, S \ {x})

RECURSIVE DecSumOf(_, _)
DecSumOf(f, S) ==
    IF S = {} THEN Zero
    ELSE LET x == CHOOSE x \in S : TRUE
         IN  DecAdd(f[x], DecSumOf(f, S \ {x}))

DecTimes(x, n) == Dec(x.n * n, x.d)

Successful == pc = "exited" /\ exitCode = 0

\* The detail row d is the one of record `row` in a file of date D.
DetailFrom(d, row, D) ==
    /\ IsAccepted(row)
    /\ d.reportDate = D
    /\ d.countryRegion = CountryOf(row)
    /\ d.provinceState = parseValue(row.Province_State, Null)
    /\ d.admin2 = parseValue(row.Admin2, Null)
    /\ d.confirmed = parseInteger(row.Confirmed, 0)
    /\ d.deaths = parseInteger(row.Deaths, 0)

C4_FullReload ==
    /\ \A a \in 1..Len(finished) :
          finished[a].exitCode = 0 =>
             \A t \in DOMAIN finished[a].tables :
                Ids(finished[a].tables[t]) \cap Ids(finished[a].atStart[t]) = {}
    /\ \A a, b \in 1..Len(finished) :
          (finished[a].exitCode = 0 /\ finished[b].exitCode = 0) =>
             \A t \in DOMAIN finished[a].tables :
                Data(finished[a].tables[t]) = Data(finished[b].tables[t])

\* Two successful runs, the second from stale rows, the first not, with rows
\* in every table at the end.
C4_Witness ==
    /\ Len(finished) = 2
    /\ finished[1].exitCode = 0 /\ finished[2].exitCode = 0
    /\ finished[1].atStart.DailyReport = <<>>
    /\ finished[2].atStart.DailyReport = <<[id |-> 1, data |-> StaleDetail]>>
    /\ Len(finished[2].tables.DailyReport) >= 2
    /\ Len(finished[2].tables.CountryStats) >= 2

\* C5: after a successful run, each of the four totals of every global-stats
\* row equals the sum of that field over the detail rows (DailyReport) of
\* the row's date.
C5_GlobalEqualsDetailSums ==
    Successful =>
        \A n \in 1..Len(DailyGlobalStats) :
            LET g    == DailyGlobalStats[n].data
                rows == [m \in 1..Len(DailyReport) |-> DailyReport[m].data]
                S    == {m \in 1..Len(DailyReport) : rows[m].reportDate = g.date}
            IN  /\ g.totalConfirmed = SumOf([m \in DOMAIN rows |-> rows[m].confirmed], S)
                /\ g.totalDeaths = SumOf([m \in DOMAIN rows |-> rows[m].deaths], S)
                /\ g.totalRecovered = SumOf([m \in DOMAIN rows |-> rows[m].recovered], S)
                /\ g.totalActive = SumOf([m \in DOMAIN rows |-> rows[m].active], S)

\* The active cases of one record: its Active when that parses as an
\* integer, else confirmed - deaths - recovered.
RowActive(row) ==
    IF row.Active # "" /\ parseInt(row.Active) # NaN
    THEN parseInt(row.Active)[1]
    ELSE parseInteger(row.Confirmed, 0) - parseInteger(row.Deaths, 0)
            - parseInteger(row.Recovered, 0)

\* The sums over the accepted records of country c in the files of date D.
ExpectedCounts(D, c) ==
    LET rows == AcceptedOn(D)
        S    == {n \in 1..Len(rows) : CountryOf(rows[n]) = c}
    IN  [confirmed |-> SumOf([n \in DOMAIN rows |-> parseInteger(rows[n].Confirmed, 0)], S),
         deaths    |-> SumOf([n \in DOMAIN rows |-> parseInteger(rows[n].Deaths, 0)], S),
         recovered |-> SumOf([n \in DOMAIN rows |-> parseInteger(rows[n].Recovered, 0)], S),
         active    |-> SumOf([n \in DOMAIN rows |-> RowActive(rows[n])], S)]

\* The directory of the scenario: 03-01-2020.csv holds the records
\* US,,,,1000,10,, and US,,,,500,5,, and no other file is of that date.
ScenarioDir ==
    /\ dir.exists
    /\ File_03_01_2020 \in DOMAIN dir.entries
    /\ dir.entries[File_03_01_2020].rows = <<RowUS1, RowUS2>>
    /\ File_02_30_2020 \notin DOMAIN dir.entries

\* C6: after a successful run, the four totals of every country-stats row
\* equal the sums over the accepted records of that country and date, the
\* active cases taken record by record; in the scenario the row of
\* (US, 2020-03-01) has confirmed 1500, deaths 15 and active 1485.
C6_CountrySums ==
    Successful =>
        /\ \A n \in 1..Len(CountryStats) :
              LET cs == CountryStats[n].data
                  e  == ExpectedCounts(cs.date, cs.countryRegion)
              IN  /\ cs.totalConfirmed = e.confirmed
                  /\ cs.totalDeaths = e.deaths
                  /\ cs.totalRecovered = e.recovered
                  /\ cs.totalActive = e.active
        /\ ScenarioDir =>
              \E n \in 1..Len(CountryStats) :
                 LET cs == CountryStats[n].data
                 IN  /\ cs.countryRegion = US
                     /\ cs.date = [y |-> 2020, m |-> 3, d |-> 1]
                     /\ cs.totalConfirmed = 1500
                     /\ cs.totalDeaths = 15
                     /\ cs.totalActive = 1485

\* The run on the directory of the scenario has succeeded.
C6_Witness == Successful /\ ScenarioDir /\ Len(CountryStats) = 2

\* The record of the probe was accepted; its detail row.
ProbeAccepted ==
    /\ probe.out # <<>>
    /\ Len(probe.out[1].dataToInsert) = Len(probe.acc[1].dataToInsert) + 1

ProbeDetail == probe.out[1].dataToInsert[Len(probe.out[1].dataToInsert)]

\* C7: the detail row of an accepted record with an empty Active has
\* active = confirmed - deaths - recovered of that record, negative or
\* not; when Active parses as an integer, active is that integer.
C7_ActiveDerived ==
    ProbeAccepted =>
        LET row == probe.row[1]
            d   == ProbeDetail
        IN  /\ d.confirmed = parseInteger(row.Confirmed, 0)
            /\ d.deaths = parseInteger(row.Deaths, 0)
            /\ d.recovered = parseInteger(row.Recovered, 0)
            /\ row.Active = "" => d.active = d.confirmed - d.deaths - d.recovered
            /\ (row.Active # "" /\ parseInt(row.Active) # NaN) =>
                  d.active = parseInt(row.Active)[1]

\* An accepted record without Active whose active cases come out negative,
\* while the sums of the day so far are positive.
C7_Witness ==
    /\ ProbeAccepted
    /\ probe.row[1].Active = ""
    /\ ProbeDetail.active < 0
    /\ probe.acc[1].dailyActive = 70

\* The field is empty, does not parse, or parses to 0.
NoSample(field) ==
    \/ field = ""
    \/ parseFloat(field) = NaN
    \/ parseFloat(field)[1].n = 0

\* The statistics of the probe's country before and after its record.
ProbeBefore ==
    IF MapHas(probe.acc[1].countryStatsMap, ProbeDetail.countryRegion)
    THEN MapGet(probe.acc[1].countryStatsMap, ProbeDetail.countryRegion)
    ELSE NewCountryStats

ProbeAfter == MapGet(probe.out[1].countryStatsMap, ProbeDetail.countryRegion)

\* C8: when the incidence rate (or the case-fatality ratio) of an accepted
\* record is empty, unparseable or 0, the detail row holds null for it and
\* the country's list of samples is left as it was; no detail row holds 0.
C8_ZeroRateAbsent ==
    ProbeAccepted =>
        LET row == probe.row[1]
            d   == ProbeDetail
        IN  /\ NoSample(OrElse(row.Incident_Rate, row.Incidence_Rate)) =>
                  /\ d.incidentRate = <<>>
                  /\ ProbeAfter.incidentRates = ProbeBefore.incidentRates
            /\ NoSample(OrElse(row.CaseFatalityDash, row.Case_Fatality_Ratio)) =>
                  /\ d.caseFatalityRatio = <<>>
                  /\ ProbeAfter.fatalityRatios = ProbeBefore.fatalityRatios
            /\ d.incidentRate # <<>> => d.incidentRate[1].n # 0
            /\ d.caseFatalityRatio # <<>> => d.caseFatalityRatio[1].n # 0

\* A record of US with the rate 0.0, put through the loop when US already
\* has one sample: the detail row holds null and the sample stays alone.
C8_Witness ==
    /\ ProbeAccepted
    /\ probe.row[1].Country_Region = US
    /\ probe.row[1].Incident_Rate = "0.0"
    /\ ProbeDetail.incidentRate = <<>>
    /\ ProbeBefore.incidentRates = <<Dec(35, 1)>>
    /\ ProbeAfter.incidentRates = <<Dec(35, 1)>>

RateOf(row) == parseNumber(OrElse(row.Incident_Rate, row.Incidence_Rate), Zero)

RatioOf(row) == parseNumber(OrElse(row.CaseFatalityDash, row.Case_Fatality_Ratio), Zero)

\* stored is null when S is empty, else the mean of the values f[x], x in S.
MeanIs(stored, f, S) ==
    IF S = {} THEN stored = <<>>
    ELSE /\ stored # <<>>
         /\ DecEq(DecTimes(stored[1].sum, Cardinality(S)),
                  DecTimes(DecSumOf(f, S), stored[1].len))

\* C9: the incidentRate (caseFatalityRatio) of every country-stats row is
\* the mean of the strictly positive values of the accepted records of its
\* country and date, and null when there is no such value.
C9_MeanOfPositive ==
    Successful =>
        \A n \in 1..Len(CountryStats) :
            LET cs     == CountryStats[n].data
                rows   == AcceptedOn(cs.date)
                mine   == {r \in 1..Len(rows) : CountryOf(rows[r]) = cs.countryRegion}
                rates  == [r \in 1..Len(rows) |-> RateOf(rows[r])]
                ratios == [r \in 1..Len(rows) |-> RatioOf(rows[r])]
            IN  /\ MeanIs(cs.incidentRate, rates, {r \in mine : rates[r].n > 0})
                /\ MeanIs(cs.caseFatalityRatio, ratios, {r \in mine : ratios[r].n > 0})

\* France with the rates 2.5 and 1.5, mean 2, and no positive ratio.
C9_Witness ==
    /\ Successful
    /\ \E n \in 1..Len(CountryStats) :
          LET cs == CountryStats[n].data
          IN  /\ cs.countryRegion = France
              /\ cs.incidentRate # <<>>
              /\ cs.incidentRate[1].len = 2
              /\ DecEq(cs.incidentRate[1].sum, Dec(4, 0))
              /\ cs.caseFatalityRatio = <<>>

\* The name is MM-DD-YYYY.csv; the date its digits spell.
IsDatedName(s) == Len(s) = 14 /\ MatchAt(s, 1)

DigitsDate(s) ==
    [y |-> DigitsValue(SubSeq(s, 7, 10)),
     m |-> DigitsValue(SubSeq(s, 1, 2)),
     d |-> DigitsValue(SubSeq(s, 4, 5))]

\* C10: the rows and the statistics of a file named MM-DD-YYYY.csv carry
\* the date its digits spell; a file is only imported when its name holds
\* the pattern, and a name without it does not fail the run.
C10_DateFromName ==
    /\ pc = "batches" =>
          /\ HasDatePattern(files[i])
          /\ IsDatedName(Spell(files[i])) =>
                /\ \A n \in 1..Len(dataToInsert) :
                      dataToInsert[n].reportDate = DigitsDate(Spell(files[i]))
                /\ \E n \in 1..Len(globalStatsByDate) :
                      globalStatsByDate[n].val.date = DigitsDate(Spell(files[i]))
    /\ (pc = "exited" /\ dir.exists) => exitCode = 0

\* The key of a detail row, an absent value being a value like any other.
KeyOf(d) == <<d.countryRegion, d.provinceState, d.admin2, d.reportDate>>

\* C11: after a run, no two rows of DailyReport have the same (country,
\* province, sub-region, report date), an absent province and sub-region
\* included.
C11_UniqueDetailKeys ==
    (pc = "exited" /\ dir.exists) =>
        \A a, b \in 1..Len(DailyReport) :
            a # b => KeyOf(DailyReport[a].data) # KeyOf(DailyReport[b].data)

\* The file of date D that had its turn last.
LastFileOn(D) ==
    files[CHOOSE a \in 1..Len(files) :
             /\ files[a] \in Imported /\ DateOf(files[a]) = D
             /\ \A b \in (a + 1)..Len(files) :
                   ~(files[b] \in Imported /\ DateOf(files[b]) = D)]

\* The sums over the accepted records of one file.
FileCounts(f) ==
    LET rows == SelectSeq(dir.entries[f].rows, IsAccepted)
        S    == 1..Len(rows)
    IN  [confirmed |-> SumOf([n \in S |-> parseInteger(rows[n].Confirmed, 0)], S),
         deaths    |-> SumOf([n \in S |-> parseInteger(rows[n].Deaths, 0)], S),
         recovered |-> SumOf([n \in S |-> parseInteger(rows[n].Recovered, 0)], S),
         active    |-> SumOf([n \in S |-> RowActive(rows[n])], S)]

\* The accepted records of date D outnumber the detail rows of that date:
\* the insert has skipped one.
SkippedAtInsert(D) ==
    Len(AcceptedOn(D)) >
        Cardinality({n \in 1..Len(DailyReport) : DailyReport[n].data.reportDate = D})

RECURSIVE RowsIssued(_, _)
RowsIssued(log, f) ==
    IF log = <<>> THEN <<>>
    ELSE (IF Head(log).file = f THEN Head(log).rows ELSE <<>>) \o RowsIssued(Tail(log), f)

\* C13: the batches are inserted one at a time.  At most one createMany is
\* in flight; a batch is issued only when every batch before it has
\* settled; the batches of a file follow each other without a gap, the
\* first batch of a later file comes after the last batch of the earlier
\* one; no batch holds more than batchSize rows; and the batches of a file
\* are the rows of dataToInsert, each once, in order.
C13_SequentialBatches ==
    /\ Len(inFlight) <= 1
    /\ inFlight # <<>> =>
          /\ pc = "batches"
          /\ issued # <<>>
          /\ inFlight[1] = issued[Len(issued)].rows
    /\ \A a \in 1..Len(issued) :
          /\ Len(issued[a].rows) \in 1..batchSize
          /\ issued[a].settled <=> (a < Len(issued) \/ inFlight = <<>>)
    /\ \A a \in 1..(Len(issued) - 1) :
          LET x == issued[a]
              y == issued[a + 1]
          IN  \/ y.file = x.file /\ y.from = x.from + Len(x.rows)
              \/ /\ y.file > x.file
                 /\ y.from = 0
                 /\ x.from + Len(x.rows) = x.total
    /\ pc = "batches" =>
          RowsIssued(issued, i) =
              SubSeq(dataToInsert, 1,
                     Min(j + batchSize * Len(inFlight), Len(dataToInsert)))
    /\ (pc = "files" /\ i > 1 /\ issued # <<>> /\ issued[Len(issued)].file = i - 1) =>
          RowsIssued(issued, i - 1) = dataToInsert

\* The only batch of a second file is in flight, after the two batches of
\* the first file.
C13_Witness ==
    /\ pc = "batches"
    /\ Len(inFlight) = 1
    /\ Len(issued) = 3
    /\ issued[1].file = issued[2].file
    /\ issued[2].from = batchSize
    /\ issued[3].file > issued[2].file
    /\ issued[1].settled /\ issued[2].settled /\ ~issued[3].settled

\* C14: once a deleteMany, a dailyGlobalStats.create or a
\* countryStats.create has rejected, the run issues no further database
\* call but $disconnect, importDailyReports rejects, no summary is printed,
\* the tables stay as they were when the call rejected, and the process
\* exits with status 1.
C14_FatalFailure ==
    failure # <<>> =>
        /\ thrown
        /\ pc \in {"finally", "exit", "exited"}
        /\ inFlight = <<>>
        /\ Len(dbLog) >= failure[1].at
        /\ dbLog[failure[1].at] = failure[1].call
        /\ \A n \in (failure[1].at + 1)..Len(dbLog) : dbLog[n] = "$disconnect"
        /\ summary = <<>>
        /\ Tables = failure[1].tables
        /\ exitCode # 0
        /\ pc = "exited" => exitCode = 1

\* The second deleteMany rejected: the run has ended with status 1, with
\* DailyReport empty and the stale rows of the two other tables in place.
C14_Witness ==
    /\ pc = "exited" /\ exitCode = 1
    /\ failure # <<>>
    /\ failure[1].call = "dailyGlobalStats.deleteMany"
    /\ atStart.DailyReport # <<>>
    /\ DailyReport = <<>>
    /\ DailyGlobalStats = atStart.DailyGlobalStats
    /\ CountryStats = atStart.CountryStats
    /\ DailyGlobalStats # <<>>

\* C15: the files are processed in ascending order of their report dates:
\* no file is processed after a file of a later date, years included.
C15_ChronologicalOrder ==
    pc = "batches" =>
        \A a \in 1..(i - 1) :
            files[a] \in Imported => ~Earlier(DateOf(files[i]), DateOf(files[a]))

\* C16: on a successful run the summary's totalRecords is the number of
\* rows the run left in DailyReport, and the number of dates it prints is
\* the number of rows in DailyGlobalStats.
C16_SummaryCounts ==
    (Successful /\ summary # <<>>) =>
        /\ summary[1].totalRecords = Len(DailyReport)
        /\ summary[1].days = Len(DailyGlobalStats)

\* The half of C16 about the dates, which holds.
C16_DaysPrinted ==
    (Successful /\ summary # <<>>) => summary[1].days = Len(DailyGlobalStats)

\* C17: a record with no country under either header adds nothing and
\* raises nothing.  When the rows of a file have been read, dataToInsert
\* holds one detail row per record with a country, in order; the global
\* sums of the file and the countries of its date come from those records
\* alone; and the run neither skips the file nor fails.
C17_NoCountryDropped ==
    /\ pc = "batches" =>
          LET f    == files[i]
              rows == SelectSeq(dir.entries[f].rows, IsAccepted)
              key  == toISODate(DateOf(f))
              g    == MapGet(globalStatsByDate, key)
              e    == FileCounts(f)
          IN  /\ Len(dataToInsert) = Len(rows)
              /\ \A n \in 1..Len(rows) : DetailFrom(dataToInsert[n], rows[n], DateOf(f))
              /\ g.totalConfirmed = e.confirmed
              /\ g.totalDeaths = e.deaths
              /\ g.totalRecovered = e.recovered
              /\ g.totalActive = e.active
              /\ \A c \in MapKeys(MapGet(countryStatsByDate, key)) :
                    \E n \in 1..Len(AcceptedOn(DateOf(f))) :
                       CountryOf(AcceptedOn(DateOf(f))[n]) = c
    /\ (pc = "exited" /\ dir.exists) =>
          /\ exitCode = 0
          /\ \A f \in Imported :
                \E n \in 1..Len(DailyGlobalStats) : DailyGlobalStats[n].data.date = DateOf(f)

\* 12-31-2019.csv holds a record without a country, then US,,,,1000,10,,:
\* its only detail row is the one of the US, its global sum is 1000.
C17_Witness ==
    /\ pc = "batches"
    /\ files[i] = File_12_31_2019
    /\ dir.entries[files[i]].rows = <<RowBlank, RowUS1>>
    /\ Len(dataToInsert) = 1
    /\ dataToInsert[1].countryRegion = US
    /\ MapGet(globalStatsByDate, toISODate(DateOf(files[i]))).totalConfirmed = 1000
    /\ MapKeys(MapGet(countryStatsByDate, toISODate(DateOf(files[i])))) = {US}

\* C18: the final inserts never meet a row of their own key.  No insert of
\* a run whose calls the database accepts is rejected; the keys of the
\* aggregates are distinct; and after a successful run DailyGlobalStats
\* holds exactly one row per date of globalStatsByDate and no other,
\* CountryStats exactly one row per (date, country) of countryStatsByDate
\* and no other.
C18_OneRowPerKey ==
    /\ failure = <<>>
    /\ \A a, b \in 1..Len(globalStatsByDate) :
          a # b => /\ globalStatsByDate[a].key # globalStatsByDate[b].key
                   /\ globalStatsByDate[a].val.date # globalStatsByDate[b].val.date
    /\ Successful =>
          LET entries == CountryEntries(countryStatsByDate)
          IN  /\ Len(DailyGlobalStats) = Len(globalStatsByDate)
              /\ \A a \in 1..Len(globalStatsByDate) :
                    Cardinality({n \in 1..Len(DailyGlobalStats) :
                        DailyGlobalStats[n].data.date = globalStatsByDate[a].val.date}) = 1
              /\ Len(CountryStats) = Len(entries)
              /\ \A a \in 1..Len(entries) :
                    Cardinality({n \in 1..Len(CountryStats) :
                        /\ CountryStats[n].data.countryRegion = entries[a].country
                        /\ toISODate(CountryStats[n].data.date) = entries[a].dateKey}) = 1

\* Two files of one date and one of another, all read: two global-stats
\* rows and three country-stats rows.
C18_Witness ==
    /\ Successful
    /\ {File_02_30_2020, File_03_01_2020, File_12_31_2019} \subseteq Imported
    /\ dir.entries[File_03_01_2020].rows = <<RowUS1, RowFR1>>
    /\ Len(DailyGlobalStats) = 2
    /\ Len(CountryStats) = 3

\* The number a text of groups of three digits spells.
RECURSIVE GroupsValue(_)
GroupsValue(groups) ==
    IF groups = <<>> THEN 0
    ELSE GroupsValue(SubSeq(groups, 1, Len(groups) - 1)) * 1000 + groups[Len(groups)]

\* What GET /api/covid/stats answers about the recovered total of the
\* latest global-stats row `latest`.
RecoveredAnswered(latest, global) ==
    /\ latest.totalRecovered = 0 =>
          /\ global.totalRecovered = <<>>
          /\ global.recoveredLastUpdate = <<>>
    /\ latest.totalRecovered > 0 =>
          /\ global.totalRecovered = <<latest.totalRecovered>>
          /\ global.recoveredLastUpdate = <<toISODate(latest.date)>>

\* What the loaded Dashboard shows of it, the date of the last update being
\* `shown`.
RecoveredDisplayed(latest, card, shown) ==
    /\ latest.totalRecovered = 0 =>
          /\ card.text = "N/A"
          /\ card.lastUpdate = <<>>
    /\ latest.totalRecovered > 0 =>
          /\ card.text = "number"
          /\ GroupsValue(card.number) = latest.totalRecovered
          /\ card.lastUpdate = <<[month |-> shown.m, day |-> shown.d, year |-> shown.y]>>

\* C19: when the latest global-stats row has totalRecovered = 0, the
\* handler answers global.totalRecovered = null and recoveredLastUpdate =
\* null and the Dashboard shows 'N/A'; when it is positive, the handler
\* answers the number and the date of that row, and the Dashboard shows the
\* number and that date.
C19_RecoveredOrNotAvailable ==
    (response # <<>> /\ response[1].status = 200) =>
        /\ RecoveredAnswered(LatestGlobalStats(DailyGlobalStats)[1],
                             response[1].body.global[1])
        /\ (~page.loading /\ page.stats # <<>>) =>
              RecoveredDisplayed(LatestGlobalStats(DailyGlobalStats)[1],
                                 RecoveredCard(page, recoveredTotal(page)),
                                 LatestGlobalStats(DailyGlobalStats)[1].date)

\* What holds of C19: the answer is as the claim says, and the Dashboard
\* shows 'N/A' or the number; the date it shows is the day of the latest
\* row's midnight UTC in the time zone of the browser.
C19_ShownInTimeZone ==
    (response # <<>> /\ response[1].status = 200) =>
        /\ RecoveredAnswered(LatestGlobalStats(DailyGlobalStats)[1],
                             response[1].body.global[1])
        /\ (~page.loading /\ page.stats # <<>>) =>
              RecoveredDisplayed(LatestGlobalStats(DailyGlobalStats)[1],
                                 RecoveredCard(page, recoveredTotal(page)),
                                 DayIn(page.zone,
                                       LatestGlobalStats(DailyGlobalStats)[1].date))

\* The rows of country c up to the date of the latest global-stats row.
RowsUpToLatest(c) ==
    {CountryStats[n].data : n \in {m \in 1..Len(CountryStats) :
        /\ CountryStats[m].data.countryRegion = c
        /\ ~Earlier(LatestGlobalStats(DailyGlobalStats)[1].date, CountryStats[m].data.date)}}

\* The latest of a set of rows of one country.
LatestOf(rows) == CHOOSE r \in rows : \A o \in rows : ~Earlier(r.date, o.date)

\* The recovered total C20 gives country c: that of its latest row with a
\* non-zero total, or that of its latest row when it has none.
LatestNonZero(c) ==
    IF \E r \in RowsUpToLatest(c) : r.totalRecovered # 0
    THEN LatestOf({r \in RowsUpToLatest(c) : r.totalRecovered # 0}).totalRecovered
    ELSE LatestOf(RowsUpToLatest(c)).totalRecovered

\* C20: every entry of countryTotals and of topCountries carries, as
\* recovered, the total of the country's latest row with a non-zero
\* totalRecovered, and the total of its latest row only when it has no such
\* row.
C20_LatestNonZeroRecovered ==
    (response # <<>> /\ response[1].status = 200) =>
        /\ \A n \in 1..Len(response[1].body.countryTotals) :
              response[1].body.countryTotals[n].recovered =
                  LatestNonZero(response[1].body.countryTotals[n].country)
        /\ \A n \in 1..Len(response[1].body.topCountries) :
              response[1].body.topCountries[n].recovered =
                  LatestNonZero(response[1].body.topCountries[n].country)

\* The recovered total the handler gives country c: that of its latest row
\* when it is not zero, else that of its latest row with a positive total,
\* else zero.
LatestPositive(c) ==
    IF LatestOf(RowsUpToLatest(c)).totalRecovered # 0
    THEN LatestOf(RowsUpToLatest(c)).totalRecovered
    ELSE IF \E r \in RowsUpToLatest(c) : r.totalRecovered > 0
         THEN LatestOf({r \in RowsUpToLatest(c) : r.totalRecovered > 0}).totalRecovered
         ELSE 0

\* What holds of C20: the entries are those of the countries with a row at
\* the latest date, each with the total of LatestPositive.
C20_LatestPositiveRecovered ==
    (response # <<>> /\ response[1].status = 200) =>
        /\ {response[1].body.countryTotals[n].country :
               n \in 1..Len(response[1].body.countryTotals)}
             = {CountryStats[n].data.countryRegion : n \in {m \in 1..Len(CountryStats) :
                   CountryStats[m].data.date = LatestGlobalStats(DailyGlobalStats)[1].date}}
        /\ response[1].body.topCountries = response[1].body.countryTotals
        /\ \A n \in 1..Len(response[1].body.countryTotals) :
              response[1].body.countryTotals[n].recovered =
                  LatestPositive(response[1].body.countryTotals[n].country)

\* C22: after a successful run, the four totals of the global-stats row of
\* every date are the sums of the totals of the country-stats rows of that
\* date.
C22_GlobalEqualsCountrySums ==
    Successful =>
        \A n \in 1..Len(DailyGlobalStats) :
            LET g    == DailyGlobalStats[n].data
                rows == SelectSeq(Data(CountryStats), LAMBDA r : r.date = g.date)
            IN  /\ g.totalConfirmed = SumOfField(rows, "totalConfirmed")
                /\ g.totalDeaths = SumOfField(rows, "totalDeaths")
                /\ g.totalRecovered = SumOfField(rows, "totalRecovered")
                /\ g.totalActive = SumOfField(rows, "totalActive")

\* What holds of C22: the totals are equal on every date the run imported
\* one file of.
C22_EqualWithOneFilePerDate ==
    Successful =>
        \A n \in 1..Len(DailyGlobalStats) :
            LET g    == DailyGlobalStats[n].data
                rows == SelectSeq(Data(CountryStats), LAMBDA r : r.date = g.date)
            IN  Cardinality({f \in Imported : DateOf(f) = g.date}) = 1 =>
                   /\ g.totalConfirmed = SumOfField(rows, "totalConfirmed")
                   /\ g.totalDeaths = SumOfField(rows, "totalDeaths")
                   /\ g.totalRecovered = SumOfField(rows, "totalRecovered")
                   /\ g.totalActive = SumOfField(rows, "totalActive")

\* The detail rows left by the batches of the log that resolved, in order.
RECURSIVE Resolved(_, _)
Resolved(log, table) ==
    IF log = <<>> THEN table
    ELSE Resolved(Tail(log),
                  IF Head(log).settled /\ ~Head(log).rejected
                  THEN InsertSkipDuplicates(table, Head(log).rows, 1).table
                  ELSE table)

\* The files before file a that were read and of which no batch rejected.
InsertedBefore(a) ==
    {b \in 1..(a - 1) :
        /\ files[b] \in Imported
        /\ \A n \in 1..Len(issued) : issued[n].file = b => ~issued[n].rejected}

\* The global-stats row of date D holds the sums e.
GlobalStatsHold(D, e) ==
    \E n \in 1..Len(DailyGlobalStats) :
        LET g == DailyGlobalStats[n].data
        IN  /\ g.date = D
            /\ g.totalConfirmed = e.confirmed
            /\ g.totalDeaths = e.deaths
            /\ g.totalRecovered = e.recovered
            /\ g.totalActive = e.active

\* The country-stats row of (c, D) holds the sums e.
CountryStatsHold(D, c, e) ==
    \E n \in 1..Len(CountryStats) :
        LET cs == CountryStats[n].data
        IN  /\ cs.date = D
            /\ cs.countryRegion = c
            /\ cs.totalConfirmed = e.confirmed
            /\ cs.totalDeaths = e.deaths
            /\ cs.totalRecovered = e.recovered
            /\ cs.totalActive = e.active

\* The statistics tables hold the sums over all accepted records of file f,
\* of date D.
SumsWritten(f, D) ==
    /\ LastFileOn(D) = f => GlobalStatsHold(D, FileCounts(f))
    /\ \A c \in {CountryOf(dir.entries[f].rows[r]) : r \in 1..Len(dir.entries[f].rows)} :
          c # "" => CountryStatsHold(D, c, ExpectedCounts(D, c))

C24_DisconnectedOnce ==
    /\ Count(dbLog, "$disconnect") <= 1
    /\ pc \notin {"exit", "exited"} =>
          /\ Count(dbLog, "$disconnect") = 0
          /\ connected
          /\ exitCode = -1
    /\ pc \in {"exit", "exited"} =>
          /\ Count(dbLog, "$disconnect") = 1
          /\ dbLog[Len(dbLog)] = "$disconnect"
          /\ ~connected
          /\ inFlight = <<>>
    /\ pc = "exit" => exitCode = -1
    /\ pc = "exited" => exitCode = ExitStatus(~dir.exists \/ failure # <<>>)

\* A countryStats.create rejected after detail rows and global-stats rows
\* were inserted: the run has exited with status 1, disconnected.
C24_Witness ==
    /\ pc = "exited" /\ exitCode = 1
    /\ failure # <<>>
    /\ failure[1].call = "countryStats.create"
    /\ DailyReport # <<>>
    /\ DailyGlobalStats # <<>>
    /\ dbLog[Len(dbLog)] = "$disconnect"
    /\ dbLog[Len(dbLog) - 1] = "countryStats.create"
    /\ ~connected

\* C25: GET /api/covid/stats answers 404 with "No data available" exactly
\* when its query finds no row in DailyGlobalStats; a request whose query
\* runs after the import has wiped DailyGlobalStats and before it has
\* inserted a row into it gets that answer, detail rows or not.
C25_NoDataWhileImporting ==
    handler.at = "answered" =>
        /\ response # <<>>
        /\ response[1].status = 404 <=> handler.noRow
        /\ response[1].status = 404 => response[1].body = [error |-> "No data available"]
        /\ response[1].status # 404 => response[1].status = 200
        /\ handler.inWindow => response[1].status = 404

\* The query ran during the detail-insert phase, with detail rows in the
\* table, and the answer was 404; the table held rows before the wipe.
C25_Witness ==
    /\ handler.at = "answered"
    /\ handler.inWindow
    /\ handler.details > 0
    /\ atStart.DailyGlobalStats # <<>>
    /\ response = <<NoData>>
    /\ pc = "batches"

\* The rows the request is about: the country's, or the global ones.
Asked_Dates ==
    IF handler.country # ""
    THEN {CountryStats[n].data.date :
             n \in {m \in 1..Len(CountryStats) :
                       CountryStats[m].data.countryRegion = handler.country}}
    ELSE {DailyGlobalStats[n].data.date : n \in 1..Len(DailyGlobalStats)}

\* The dates of an answered timeline.
AnsweredDates == {response[1].body.timeline[n].date :
                     n \in 1..Len(response[1].body.timeline)}

\* The request holds a start date or an end date that is a date.
HasDateFilter ==
    DateParam(handler.startDate) # <<>> \/ DateParam(handler.endDate) # <<>>

\* date lies between the two dates of the request, whichever is first.
InRange(date) ==
    LET s == DateParam(handler.startDate)
        e == DateParam(handler.endDate)
        a == IF s # <<>> /\ e # <<>> /\ Earlier(e[1], s[1]) THEN e ELSE s
        b == IF s # <<>> /\ e # <<>> /\ Earlier(e[1], s[1]) THEN s ELSE e
    IN  /\ a # <<>> => ~Earlier(date, a[1])
        /\ b # <<>> => ~Earlier(b[1], date)

\* The timeline holds the `limit` most recent entries and no more.
MostRecent(limit) ==
    /\ Len(response[1].body.timeline) <= limit
    /\ Cardinality(AnsweredDates) = Min(limit, Cardinality(Asked_Dates))
    /\ AnsweredDates \subseteq Asked_Dates
    /\ \A d \in AnsweredDates : \A o \in Asked_Dates \ AnsweredDates : Earlier(o, d)

\* The entries are in strictly ascending order of date.
Ascending ==
    \A n \in 1..(Len(response[1].body.timeline) - 1) :
        Earlier(response[1].body.timeline[n].date, response[1].body.timeline[n + 1].date)

\* C21: an answered timeline, global or of a country, is in strictly
\* ascending order of date; without a valid startDate or endDate it holds
\* the `limit` most recent entries (90 when limit is not given) and never
\* more than `limit`; with one, it holds every entry within the range,
\* whatever the limit.
C21_LimitMostRecent ==
    (handler.at = "answered" /\ response[1].status = 200) =>
        /\ Ascending
        /\ HasDateFilter => AnsweredDates = {d \in Asked_Dates : InRange(d)}
        /\ (~HasDateFilter /\ limitOf(handler.limit) # NaN) =>
              MostRecent(limitOf(handler.limit)[1])

\* The same for the requests whose limit is not negative.
C21_WithLimitNotNegative ==
    (handler.at = "answered" /\ response[1].status = 200) =>
        /\ Ascending
        /\ HasDateFilter => AnsweredDates = {d \in Asked_Dates : InRange(d)}
        /\ (~HasDateFilter /\ limitOf(handler.limit) # NaN /\ limitOf(handler.limit)[1] >= 0) =>
              MostRecent(limitOf(handler.limit)[1])

\* C28: on the Dashboard loading is true at mount; it changes only once,
\* from true to false, in the step in which the fetch of /api/covid/stats
\* has settled and its callback runs, and never becomes true again; stats
\* is non-null only once an OK response was read; and loading becomes false
\* at last whatever the outcome: an OK response, a response that is not OK,
\* a network or JSON error.
C28_LoadingEnds ==
    /\ page.loading /\ page.stats = <<>>
    /\ [][page.loading' # page.loading =>
              /\ page.loading /\ ~page.loading'
              /\ response # <<>> /\ response' = response]_vars
    /\ [][page.stats' # page.stats => page.loading /\ ~page.loading']_vars
    /\ [](page.stats # <<>> =>
              /\ ~page.loading
              /\ response # <<>> /\ response[1].status = 200
              /\ page.stats = <<response[1].body>>)
    /\ <>[](~page.loading)

\* The body of an OK response was not JSON: loading is false, stats is null.
C28_Witness ==
    /\ ~page.loading
    /\ page.stats = <<>>
    /\ response = <<NoResponse>>
    /\ DailyGlobalStats # <<>>

\* The timelines the page should show for its selection.
GlobalTimelineSelected ==
    TimelineFor("", buildTimelineParams(analytics.period, analytics.startDate,
                                        analytics.timelineMode))

CountryTimelineSelected ==
    TimelineFor(analytics.selectedCountry,
                buildTimelineParams(analytics.period, analytics.startDate,
                                    analytics.timelineMode))

\* C26: on the analytics page a stale answer never overwrites a newer one.
\* Once every call of loadData has returned, none of them with an error,
\* globalTimeline holds the timeline of the selected parameters and, with a
\* country selected, countryTimeline holds the timeline of that country and
\* those parameters; and loading is false only when no call is in flight.
C26_NoStaleResponse ==
    analytics.at = "open" =>
        /\ ~analytics.loading => analytics.loads = <<>>
        /\ (analytics.loads = <<>> /\ analytics.errors = 0) =>
              /\ analytics.globalTimeline = <<GlobalTimelineSelected>>
              /\ analytics.selectedCountry # "" =>
                    analytics.countryTimeline = <<CountryTimelineSelected>>

\* The same for a page whose selection was never changed: one call in all.
C26_OneLoadAtATime ==
    (analytics.at = "open" /\ analytics.changes = 0) =>
        /\ ~analytics.loading => analytics.loads = <<>>
        /\ (analytics.loads = <<>> /\ analytics.errors = 0) =>
              analytics.globalTimeline = <<GlobalTimelineSelected>>

(***************************************************************************)
(* C27: the population import reads the file and builds every entry before *)
(* it deletes CountryPopulation.  With the file missing or without a       *)
(* header line no call reaches the database, the table is what it was and  *)
(* the process exits with status 1.  Otherwise the first call is the       *)
(* delete, the entries are inserted in their order in chunks of at most    *)
(* chunkSize, a chunk being issued once the one before is in the table,    *)
(* and the table holds at most one row per (country, year), each of a year *)
(* of 2020..2023 and of the truncated finite number of a cell of that      *)
(* country and year; at the exit, with status 0, every pair of the entries *)
(* has its row.                                                            *)
(***************************************************************************)
HeaderFound(file) ==
    /\ file.exists
    /\ \E n \in 1..Len(file.lines) :
          file.lines[n] # <<>> /\ file.lines[n][1] = "Country Name"

RECURSIVE RowsInserted(_)
RowsInserted(log) ==
    IF log = <<>> THEN <<>>
    ELSE (IF Head(log).call = "createMany" THEN Head(log).rows ELSE <<>>)
         \o RowsInserted(Tail(log))

\* A line of the file, after its header, with this entry in one of its cells.
FromTheFile(file, entry) ==
    \E h \in 1..Len(file.lines) : \E n \in (h + 1)..Len(file.lines) :
       \E c \in 2..Min(Len(file.lines[h]), Len(file.lines[n])) :
          /\ file.lines[h][1] = "Country Name"
          /\ file.lines[n][1] = entry.country /\ entry.country # ""
          /\ file.lines[h][c] \in {"2020", "2021", "2022", "2023"}
          /\ Number(file.lines[h][c]) = <<[n |-> entry.year, d |-> 0]>>
          /\ isFinite(Number(file.lines[n][c]))
          /\ entry.population = trunc(Number(file.lines[n][c])[1])

C27_PopulationImport ==
    LET p    == population
        sent == RowsInserted(p.log)
    IN  /\ ~HeaderFound(p.file) =>
              /\ p.at \in {"start", "exited"}
              /\ p.at = "exited" => p.exitCode = 1
              /\ p.table = p.before /\ p.log = <<>>
        /\ p.log = <<>> => p.table = p.before
        /\ p.log # <<>> =>
              /\ p.log[1].call = "deleteMany"
              /\ \A n \in 2..Len(p.log) : p.log[n].call # "deleteMany"
              /\ Len(sent) <= Len(p.entries)
              /\ sent = SubSeq(p.entries, 1, Len(sent))
        /\ \A n \in 1..Len(p.log) :
              p.log[n].call = "createMany" => Len(p.log[n].rows) \in 1..chunkSize
        /\ LET done == IF p.inFlight = <<>> THEN Len(sent)
                       ELSE Len(sent) - Len(p.inFlight[1])
           IN  /\ \A n \in 1..done : \E r \in 1..Len(p.table) :
                     PopulationConflicts(p.table[r].data, sent[n])
               /\ p.log # <<>> =>
                     \A r \in 1..Len(p.table) : \E n \in 1..done :
                        p.table[r].data = sent[n]
        /\ p.log # <<>> =>
              /\ \A r \in 1..Len(p.table) :
                    /\ p.table[r].data.year \in 2020..2023
                    /\ FromTheFile(p.file, p.table[r].data)
              /\ \A r, q \in 1..Len(p.table) :
                    PopulationConflicts(p.table[r].data, p.table[q].data) => r = q
        /\ (HeaderFound(p.file) /\ p.at = "exited") =>
              /\ p.exitCode = 0
              /\ p.log # <<>> /\ sent = p.entries

\* The file has no header line, the table held a row, the process has exited.
C27_Witness ==
    /\ population.at = "exited"
    /\ population.file.exists /\ population.file.lines # <<>>
    /\ ~HeaderFound(population.file)
    /\ population.before # <<>>

\* A file of three entries, two of one pair, over a table that held a row: two
\* chunks, two rows.
C27_Imported ==
    /\ population.at = "exited" /\ population.exitCode = 0
    /\ population.before # <<>>
    /\ Len(population.entries) = 3 /\ Len(population.table) = 2
    /\ Len(population.log) = 4

=============================================================================
